---- MODULE Spec2Model ----
(***************************************************************************)
(* Sync2Sheets: the reconciliation engine that keeps a Notion database and *)
(* a Google Sheet consistent.  The repository holds two variants of the    *)
(* class Sync2Sheets: src/main.py (the GUI application, the one the unit   *)
(* tests import) and src/sync.py (the stand-alone engine).  Both are       *)
(* modelled; the variable impl says which variant the engine object is.    *)
(*                                                                         *)
(* The remote services are the environment: every remote call either       *)
(* succeeds or raises, chosen nondeterministically.                        *)
(***************************************************************************)
EXTENDS Integers, Sequences, FiniteSets, TLC

\* ------------------------------------------------------------------ bounds

\* Most pages the Notion database holds when the engine is constructed.
MaxPages == 2
\* Most data rows the sheet holds when the engine is constructed.
MaxRows == 2
\* Most directional sync calls made on one engine object.
MaxRuns == 2
\* Most records the Notion server returns in one query response.
PageSize == 2
\* Most plain_text fragments of a title / rich_text value given to the codec.
MaxFragments == 2
\* Most button clicks the window receives.
MaxClicks == 3
\* Rightmost position (1-based) of the id column in a header row given to the
\* write-back addressing; beyond the 26 one-letter columns and beyond the
\* characters that chr(65 + index) takes from between "Z" and "a".
MaxIdColumn == 34
\* Last sheet row given to the write-back addressing.
MaxSheetRow == 4

\* --------------------------------------------------------------- utilities

Range(s) == {s[k] : k \in 1..Len(s)}

Max(a, b) == IF a >= b THEN a ELSE b

\* All sequences over S of length 0..n.
SeqsUpTo(S, n) == UNION {[1..k -> S] : k \in 0..n}

\* Python's list.index: the first position of x in s (0 when absent; callers
\* test membership first, as Python raises ValueError when absent).
IndexOf(s, x) ==
  IF \E k \in 1..Len(s) : s[k] = x
    THEN CHOOSE k \in 1..Len(s) : s[k] = x /\ \A j \in 1..(k - 1) : s[j] # x
    ELSE 0

\* ----------------------------------------------------------- configuration

NOTION_ID_COLUMN == "Notion Page ID"

\* The schema fetched once by __init__: an ordered mapping name -> type.
notion_db_schema == << [name |-> "Title", type |-> "title"] >>

SchemaNames == [k \in 1..Len(notion_db_schema) |-> notion_db_schema[k].name]

InSchema(h) == \E k \in 1..Len(notion_db_schema) : notion_db_schema[k].name = h

SchemaType(h) ==
  notion_db_schema[CHOOSE k \in 1..Len(notion_db_schema) : notion_db_schema[k].name = h].type

\* headers = list(self.notion_db_schema.keys()) + [NOTION_ID_COLUMN]
ExpectedHeaders == Append(SchemaNames, NOTION_ID_COLUMN)

\* --------------------------------------------------------------- the inputs

\* Ids the Notion server has assigned to the pages that exist at the start.
IdName == <<"p1", "p2", "p3", "p4">>
PageIds == {IdName[k] : k \in 1..MaxPages}

\* Ids the Notion server assigns to pages created during the runs.
NewIdName == <<"n1", "n2", "n3", "n4", "n5", "n6", "n7", "n8", "n9", "n10", "n11", "n12">>

\* The title property of a page: its list of plain_text fragments.
PageTitles == { <<"A", "B">> }

\* A page as the query call returns it.  ok = FALSE is a malformed page (no
\* "properties" key), on which _format_notion_page_for_sheet raises KeyError.
GoodPages ==
  { [id |-> d, ok |-> TRUE, properties |-> [Title |-> [type |-> "title", val |-> t]]] :
      d \in PageIds, t \in PageTitles }
BadPages == { [id |-> d, ok |-> FALSE, properties |-> <<>>] : d \in PageIds }
Pages == GoodPages \cup BadPages

DistinctIds(s) == \A a, b \in 1..Len(s) : a # b => s[a].id # s[b].id

InitialDbs == {s \in SeqsUpTo(Pages, MaxPages) : DistinctIds(s)}

\* Header rows a sheet may carry: the expected one, one without the id
\* column, one reordered and one with a renamed property column.
HeaderRows ==
  { ExpectedHeaders,
    SchemaNames,
    <<NOTION_ID_COLUMN>> \o SchemaNames,
    <<"Name", NOTION_ID_COLUMN>> }

CellTexts == {"", " A"}
IdCells == {""} \cup PageIds

\* Data rows under header row h: rectangular, the id column holding an id or "".
RowsFor(h) ==
  {r \in [1..Len(h) -> CellTexts \cup IdCells] :
     \A c \in 1..Len(h) :
       IF h[c] = NOTION_ID_COLUMN THEN r[c] \in IdCells ELSE r[c] \in CellTexts}

InitialSheets ==
  { <<>> } \cup
  UNION { { <<h>> \o d : d \in SeqsUpTo(RowsFor(h), MaxRows) } : h \in HeaderRows }

\* ----------------------------------------------------------------- strings

Whitespace == {" ", "\t", "\n", "\r"}

RECURSIVE LStrip(_)
LStrip(s) ==
  IF Len(s) > 0 /\ SubSeq(s, 1, 1) \in Whitespace THEN LStrip(SubSeq(s, 2, Len(s))) ELSE s

RECURSIVE RStrip(_)
RStrip(s) ==
  IF Len(s) > 0 /\ SubSeq(s, Len(s), Len(s)) \in Whitespace
    THEN RStrip(SubSeq(s, 1, Len(s) - 1))
    ELSE s

\* str.strip()
Strip(s) == RStrip(LStrip(s))

\* s[:n]
Prefix(s, n) == IF Len(s) > n THEN SubSeq(s, 1, n) ELSE s

\* "".join(fragments)
RECURSIVE Join(_)
Join(fs) == IF fs = <<>> THEN "" ELSE Head(fs) \o Join(Tail(fs))

Digits == "0123456789"
UpperLetters == "ABCDEFGHIJKLMNOPQRSTUVWXYZ"
LowerLetters == "abcdefghijklmnopqrstuvwxyz"
\* The ASCII characters with codes 65..126, in order.  A TLA+ string cannot
\* hold the backquote (code 96): "#", no letter either, stands in for it.
AsciiFrom65 == "ABCDEFGHIJKLMNOPQRSTUVWXYZ[\\]^_#abcdefghijklmnopqrstuvwxyz{|}~"

\* Position of the one-character string ch in string str, 0 when absent.
CharPos(str, ch) ==
  IF \E k \in 1..Len(str) : SubSeq(str, k, k) = ch
    THEN CHOOSE k \in 1..Len(str) : SubSeq(str, k, k) = ch
    ELSE 0

\* chr(n) for 65 <= n <= 126
Chr(n) == SubSeq(AsciiFrom65, n - 64, n - 64)

\* str(n) for a natural number n
RECURSIVE IntToStr(_)
IntToStr(n) ==
  IF n < 10 THEN SubSeq(Digits, n + 1, n + 1)
  ELSE IntToStr(n \div 10) \o SubSeq(Digits, (n % 10) + 1, (n % 10) + 1)

\* ------------------------------------------------- the sheet (gspread model)

\* gspread.utils.rowcol_to_a1(row, col): the column label in bijective base 26,
\* then the row number.
RECURSIVE ColumnLabel(_)
ColumnLabel(col) ==
  IF col = 0 THEN ""
  ELSE LET m == col % 26
           mod == IF m = 0 THEN 26 ELSE m
           div == (col \div 26) - (IF m = 0 THEN 1 ELSE 0)
       IN  ColumnLabel(div) \o Chr(mod + 64)

rowcol_to_a1(row, col) == ColumnLabel(col) \o IntToStr(row)

IsLetter(ch) == CharPos(UpperLetters, ch) > 0 \/ CharPos(LowerLetters, ch) > 0
LetterValue(ch) == Max(CharPos(UpperLetters, ch), CharPos(LowerLetters, ch))

\* Number of leading letters of a.
RECURSIVE LetterPrefix(_)
LetterPrefix(a) ==
  IF Len(a) > 0 /\ IsLetter(SubSeq(a, 1, 1)) THEN 1 + LetterPrefix(SubSeq(a, 2, Len(a))) ELSE 0

RECURSIVE LabelToCol(_)
LabelToCol(l) ==
  IF Len(l) = 0 THEN 0
  ELSE 26 * LabelToCol(SubSeq(l, 1, Len(l) - 1)) + LetterValue(SubSeq(l, Len(l), Len(l)))

RECURSIVE StrToInt(_)
StrToInt(d) ==
  IF Len(d) = 0 THEN 0
  ELSE 10 * StrToInt(SubSeq(d, 1, Len(d) - 1)) + (CharPos(Digits, SubSeq(d, Len(d), Len(d))) - 1)

\* The cell an A1 address names, as the sheet resolves it (letters, then a
\* row number without leading zero); ok = FALSE when it is no address.
a1_to_rowcol(a) ==
  LET n == LetterPrefix(a)
      d == SubSeq(a, n + 1, Len(a))
      valid == /\ n > 0
               /\ Len(d) > 0
               /\ \A k \in 1..Len(d) : CharPos(Digits, SubSeq(d, k, k)) > 0
               /\ SubSeq(d, 1, 1) # "0"
  IN  IF valid THEN [ok |-> TRUE, row |-> StrToInt(d), col |-> LabelToCol(SubSeq(a, 1, n))]
      ELSE [ok |-> FALSE, row |-> 0, col |-> 0]

Width(s) == IF s = <<>> THEN 0 ELSE Len(s[1])

MaxLen(vals) ==
  IF vals = <<>> THEN 0
  ELSE CHOOSE n \in {Len(vals[k]) : k \in 1..Len(vals)} : \A k \in 1..Len(vals) : Len(vals[k]) <= n

\* Worksheet.update: the block vals written with its top-left cell at (r0, c0);
\* the grid grows as needed and untouched cells keep their content.
WriteBlock(s, r0, c0, vals) ==
  LET h == Max(Len(s), r0 + Len(vals) - 1)
      w == Max(Width(s), c0 + MaxLen(vals) - 1)
      inBlock(r, c) == /\ r >= r0 /\ r < r0 + Len(vals)
                       /\ c >= c0 /\ c < c0 + Len(vals[r - r0 + 1])
  IN  [r \in 1..h |->
        [c \in 1..w |->
          IF inBlock(r, c) THEN vals[r - r0 + 1][c - c0 + 1]
          ELSE IF r <= Len(s) /\ c <= Len(s[r]) THEN s[r][c]
          ELSE ""]]

\* Worksheet.update(range, values)
sheet_update(s, a1, vals) ==
  LET p == a1_to_rowcol(a1) IN WriteBlock(s, p.row, p.col, vals)

\* Worksheet.append_rows(rows): the rows are added below the last row.
sheet_append_rows(s, rws) == WriteBlock(s, Len(s) + 1, 1, rws)

\* Worksheet.clear()
sheet_clear(s) == <<>>

\* ----------------------------------------------------------- PropertyCodec

\* str.upper() on the ASCII letters
RECURSIVE Upper(_)
Upper(s) ==
  IF Len(s) = 0 THEN ""
  ELSE LET ch == SubSeq(s, 1, 1)
           p == CharPos(LowerLetters, ch)
       IN  (IF p > 0 THEN SubSeq(UpperLetters, p, p) ELSE ch) \o Upper(SubSeq(s, 2, Len(s)))

\* s.replace(ch, ""): every occurrence of the character ch is removed.
RECURSIVE Remove(_, _)
Remove(s, ch) ==
  IF Len(s) = 0 THEN ""
  ELSE (IF SubSeq(s, 1, 1) = ch THEN "" ELSE SubSeq(s, 1, 1)) \o Remove(SubSeq(s, 2, Len(s)), ch)

\* s.startswith(pre)
StartsWith(s, pre) == Len(s) >= Len(pre) /\ SubSeq(s, 1, Len(pre)) = pre

\* ch in s
Contains(s, ch) == CharPos(s, ch) > 0

AllDigits(s) == \A k \in 1..Len(s) : CharPos(Digits, SubSeq(s, k, k)) > 0

\* The fraction digits of a float: no trailing zero, "0" when none is left.
RECURSIVE FracDigits(_)
FracDigits(f) ==
  IF Len(f) = 0 THEN "0"
  ELSE IF SubSeq(f, Len(f), Len(f)) = "0" THEN FracDigits(SubSeq(f, 1, Len(f) - 1))
  ELSE f

\* float(s) on the texts made of a sign, digits and a point (texts with an
\* exponent, "inf", "nan" or "_" do not occur among the cells modelled):
\* surrounding whitespace is ignored; ok = FALSE is ValueError.
ParseFloat(s) ==
  LET t == Strip(s)
      signed == Len(t) > 0 /\ SubSeq(t, 1, 1) \in {"-", "+"}
      r == IF signed THEN SubSeq(t, 2, Len(t)) ELSE t
      dot == CharPos(r, ".")
      ip == IF dot > 0 THEN SubSeq(r, 1, dot - 1) ELSE r
      fp == IF dot > 0 THEN SubSeq(r, dot + 1, Len(r)) ELSE ""
      ok == AllDigits(ip) /\ AllDigits(fp) /\ Len(ip) + Len(fp) > 0
  IN  IF ok
        THEN [ok |-> TRUE,
              val |-> [float |-> TRUE, neg |-> (signed /\ SubSeq(t, 1, 1) = "-"),
                       units |-> StrToInt(ip), frac |-> FracDigits(fp)]]
        ELSE [ok |-> FALSE]

\* s.split(","): the segments between the commas.
RECURSIVE Split(_)
Split(s) ==
  LET c == CharPos(s, ",")
  IN  IF c = 0 THEN <<s>>
      ELSE <<SubSeq(s, 1, c - 1)>> \o Split(SubSeq(s, c + 1, Len(s)))

\* A Python number: an int (float = FALSE, frac = "") or a float, whose
\* fraction digits frac carry no trailing zero ("0" for an integral float).
Number(isFloat, neg, units, frac) ==
  [float |-> isFloat, neg |-> neg, units |-> units, frac |-> frac]

\* The number is 0, 0.0 or -0.0.
IsZero(n) == n.units = 0 /\ n.frac \in {"", "0"}

\* str(n): "5" for the int 5, "5.0" and "42.5" for floats.
PyStr(n) ==
  (IF n.neg THEN "-" ELSE "") \o IntToStr(n.units) \o (IF n.float THEN "." \o n.frac ELSE "")

\* A property object is a record [type, val], val being what the object holds
\* under the key named by its type: a list of plain_text fragments for title
\* and rich_text, a Boolean for checkbox, a number for number, a record
\* [name] for select and status, a record [start, end] for date (end = ""
\* when the date has no end: null).  Without the key, or with null under it,
\* the record has no val field and prop.get(prop_type) is None.

\* Python's `not val`: None, the empty list, False and zero are false.
Falsy(prop) ==
  \/ "val" \notin DOMAIN prop
  \/ prop.type \in {"title", "rich_text"} /\ prop.val = <<>>
  \/ prop.type = "checkbox" /\ prop.val = FALSE
  \/ prop.type = "number" /\ IsZero(prop.val)

\* _extract_value_from_prop, src/main.py
main_extract_value_from_prop(prop) ==
  IF Falsy(prop) THEN ""
  ELSE IF prop.type \in {"title", "rich_text"} THEN Join(prop.val)
  ELSE IF prop.type \in {"select", "status"} THEN prop.val.name
  ELSE IF prop.type = "number" THEN PyStr(prop.val)
  ELSE IF prop.type = "checkbox" THEN (IF prop.val THEN "TRUE" ELSE "FALSE")
  ELSE IF prop.type = "date"
    THEN prop.val.start \o (IF prop.val.end # "" THEN " to " \o prop.val.end ELSE "")
  ELSE ""

\* _extract_value_from_prop, src/sync.py
sync_extract_value_from_prop(prop) ==
  IF Falsy(prop) THEN ""
  ELSE IF prop.type \in {"title", "rich_text"} THEN Join(prop.val)
  ELSE IF prop.type = "select" THEN prop.val.name
  ELSE IF prop.type = "number" THEN PyStr(prop.val)
  ELSE IF prop.type = "checkbox" THEN (IF prop.val THEN "TRUE" ELSE "FALSE")
  ELSE IF prop.type = "date" THEN prop.val.start
  ELSE IF prop.type = "status" THEN prop.val.name
  ELSE ""

extract_value_from_prop(im, prop) ==
  IF im = "main" THEN main_extract_value_from_prop(prop)
  ELSE sync_extract_value_from_prop(prop)

\* _format_notion_page_for_sheet raises (KeyError) on a page without properties.
FormatRaises(page) == ~page.ok

\* _format_notion_page_for_sheet(page, headers): one cell per header, the id
\* in the id column, "" for a header the page has no property for.
format_notion_page_for_sheet(im, page, hs) ==
  [c \in 1..Len(hs) |->
    IF hs[c] = NOTION_ID_COLUMN THEN page.id
    ELSE IF hs[c] \in DOMAIN page.properties
      THEN extract_value_from_prop(im, page.properties[hs[c]])
    ELSE ""]

\* The payload of one property, by schema type (the text limit of main.py).
NOTION_TEXT_LIMIT == 2000

BuildValue(im, typ, val) ==
  IF typ \in {"title", "rich_text"}
    THEN [type |-> typ, content |-> IF im = "main" THEN Prefix(val, NOTION_TEXT_LIMIT) ELSE val]
  ELSE [type |-> typ, content |-> val]

\* The schema types the builder has a branch for.
BuildsType(im, typ) ==
  IF im = "main"
    THEN typ \in {"title", "rich_text", "number", "select", "status", "multi_select",
                  "checkbox", "date", "url", "email", "phone_number"}
    ELSE typ \in {"title", "rich_text", "number", "checkbox", "select", "status",
                  "multi_select", "date"}

\* The check mark U+2713 of the accepted checkbox texts; a TLA+ string cannot
\* hold it: "%", which str.upper() leaves alone as well, stands in for it.
CHECK_MARK == "%"

\* The entry of property name h in schema sch: <<entry>>, <<>> when absent.
SchemaGet(sch, h) ==
  IF \E k \in 1..Len(sch) : sch[k].name = h
    THEN <<sch[CHOOSE k \in 1..Len(sch) : sch[k].name = h]>>
    ELSE <<>>

\* prop_schema.get('select', {}).get('options', []), as the list of names
SchemaOptions(prop_schema) ==
  IF "options" \in DOMAIN prop_schema THEN prop_schema.options ELSE <<>>

\* [name.strip() for name in cell_value.split(',') if name.strip()]
RECURSIVE StrippedNames(_)
StrippedNames(segs) ==
  IF segs = <<>> THEN <<>>
  ELSE (IF Strip(Head(segs)) # "" THEN <<Strip(Head(segs))>> ELSE <<>>) \o StrippedNames(Tail(segs))

\* The type dispatch without its validation: every non-blank cell is written.
main_build_cell_NoValidation(prop_schema, cell_value) ==
  <<BuildValue("main", prop_schema.type, cell_value)>>

\* The body of the try block of src/main.py for one non-blank cell:
\* <<payload>>, or <<>> when no property is written.
main_build_cell(prop_schema, cell_value) ==
  LET typ == prop_schema.type
      clean_value == Strip(Remove(Remove(cell_value, ","), "$"))
      names == StrippedNames(Split(cell_value))
  IN  IF typ \in {"title", "rich_text"} THEN <<BuildValue("main", typ, cell_value)>>
      ELSE IF typ = "number"
        THEN IF ParseFloat(clean_value).ok
               THEN <<BuildValue("main", typ, ParseFloat(clean_value).val)>> ELSE <<>>
      ELSE IF typ = "select"
        THEN IF SchemaOptions(prop_schema) = <<>> \/ cell_value \in Range(SchemaOptions(prop_schema))
               THEN <<BuildValue("main", typ, cell_value)>> ELSE <<>>
      ELSE IF typ = "status" THEN <<BuildValue("main", typ, cell_value)>>
      ELSE IF typ = "multi_select"
        THEN IF names # <<>> THEN <<BuildValue("main", typ, names)>> ELSE <<>>
      ELSE IF typ = "checkbox"
        THEN <<BuildValue("main", typ, Upper(cell_value) \in {"TRUE", "YES", "1", CHECK_MARK})>>
      ELSE IF typ = "date"
        THEN IF Len(cell_value) >= 10 /\ SubSeq(cell_value, 5, 5) = "-" /\ SubSeq(cell_value, 8, 8) = "-"
               THEN <<BuildValue("main", typ, Prefix(cell_value, 10))>> ELSE <<>>
      ELSE IF typ = "url"
        THEN IF StartsWith(cell_value, "http://") \/ StartsWith(cell_value, "https://")
               THEN <<BuildValue("main", typ, cell_value)>> ELSE <<>>
      ELSE IF typ = "email"
        THEN IF Contains(cell_value, "@") THEN <<BuildValue("main", typ, cell_value)>> ELSE <<>>
      ELSE IF typ = "phone_number" THEN <<BuildValue("main", typ, cell_value)>>
      ELSE <<>>

\* The body of the try block of src/sync.py for one non-blank cell.
sync_build_cell(prop_schema, val) ==
  LET typ == prop_schema.type
  IN  IF typ \in {"title", "rich_text"} THEN <<BuildValue("sync", typ, val)>>
      ELSE IF typ = "number"
        THEN IF ParseFloat(Remove(val, ",")).ok
               THEN <<BuildValue("sync", typ, ParseFloat(Remove(val, ",")).val)>> ELSE <<>>
      ELSE IF typ = "checkbox"
        THEN <<BuildValue("sync", typ, Upper(val) \in {"TRUE", "YES", "1", CHECK_MARK})>>
      ELSE IF typ \in {"select", "status"} THEN <<BuildValue("sync", typ, val)>>
      ELSE IF typ = "multi_select" THEN <<BuildValue("sync", typ, StrippedNames(Split(val)))>>
      ELSE IF typ = "date" THEN <<BuildValue("sync", typ, Prefix(val, 10))>>
      ELSE <<>>

build_cell(im, prop_schema, cell_value) ==
  IF ~BuildsType(im, prop_schema.type) THEN <<>>
  ELSE IF im = "main" THEN main_build_cell(prop_schema, cell_value)
  ELSE sync_build_cell(prop_schema, cell_value)

\* _build_notion_properties_from_row(row, headers) of an engine whose
\* notion_db_schema is sch: the loop over the header columns from column k
\* on, props being the mapping built so far.
RECURSIVE BuildFromIn(_, _, _, _, _, _)
BuildFromIn(im, sch, row, hs, k, props) ==
  IF k > Len(hs) THEN props
  ELSE
    LET header == hs[k]
        skip == \/ header = NOTION_ID_COLUMN
                \/ k > Len(row)
                \/ SchemaGet(sch, header) = <<>>
                \/ Strip(row[k]) = ""
                \/ build_cell(im, SchemaGet(sch, header)[1], Strip(row[k])) = <<>>
        v == build_cell(im, SchemaGet(sch, header)[1], Strip(row[k]))[1]
    IN  IF skip THEN BuildFromIn(im, sch, row, hs, k + 1, props)
        ELSE BuildFromIn(im, sch, row, hs, k + 1,
               [x \in (DOMAIN props) \cup {header} |-> IF x = header THEN v ELSE props[x]])

\* The builder of the engine modelled, whose schema is notion_db_schema.
BuildFrom(im, row, hs, k, props) == BuildFromIn(im, notion_db_schema, row, hs, k, props)

build_notion_properties_from_row(im, row, hs) == BuildFrom(im, row, hs, 1, <<>>)

\* ------------------------------------------------------------------- state

VARIABLES
  impl,               \* "main" (src/main.py) or "sync" (src/sync.py)
  RATE_LIMIT_DELAY,   \* configured inter-call delay (0 disables waiting)
  db,                 \* the Notion database: its pages, in query order
  sheet,              \* the Google Sheet: rows of cell strings, row 1 = header
  nextId,             \* how many ids the server has assigned to created pages
  sync_stats,         \* self.sync_stats
  pc,                 \* where the running directional sync is
  dir,                \* "none", "n2s" or "s2n": the current / last call
  exc,                \* the exception that ended the last call, or NoExc
  runs,               \* directional sync calls started so far
  prev,               \* summary of the call before the current one
  sheet0,             \* the sheet as it was when the current call started
  payload,            \* _fetch_all_notion_pages: the query payload
  results,            \* _fetch_all_notion_pages: the accumulated records
  has_more,           \* _fetch_all_notion_pages (main.py): loop condition
  responses,          \* the responses the server gave to this run's queries
  headers,            \* local: headers
  sheet_data,         \* local: the sheet as read by get_all_values
  existing,           \* local (sync.py): id -> row number
  i,                  \* local: loop index (page index, or sheet row number)
  update_batch,       \* local (sync.py)
  append_batch,       \* local (sync.py)
  batch_data,         \* local (main.py)
  batch_updates,      \* local: queued id write-backs
  calls,              \* the outbound calls and waits of this run, in order
  prop,               \* _extract_value_from_prop called on its own: the argument
  returned,           \* ... and what it returned: <<>> before the call, then <<value>>
  schema,             \* self.notion_db_schema of an engine whose builder is called on its own
  row_arg,            \* _build_notion_properties_from_row called on its own: the row
  built,              \* ... and what it returned: <<>> before the call, then <<dict>>
  n2s_button,         \* GUI: n2s_button.current.disabled
  s2n_button,         \* GUI: s2n_button.current.disabled
  sync_in_progress,   \* GUI: sync_in_progress.current.visible (and progress_text's)
  last_sync_info,     \* GUI: which task last wrote last_sync_info ("none" at start)
  threads             \* GUI: the task threads started by the click handlers

vars == << impl, RATE_LIMIT_DELAY, db, sheet, nextId, sync_stats, pc, dir, exc,
           runs, prev, sheet0, payload, results, has_more, responses, headers,
           sheet_data, existing, i, update_batch, append_batch, batch_data,
           batch_updates, calls, prop, returned, schema, row_arg, built,
           n2s_button, s2n_button, sync_in_progress, last_sync_info, threads >>

\* The direct call of a codec function.
codec == << prop, returned, schema, row_arg, built >>

\* The window of main().
gui == << n2s_button, s2n_button, sync_in_progress, last_sync_info, threads >>

\* What no step of a running call changes.
env == << impl, RATE_LIMIT_DELAY, sheet0, codec, gui >>
fetchLocals == << payload, results, has_more, responses >>
n2sLocals == << existing, update_batch, append_batch, batch_data >>

ZeroStats == [updated |-> 0, created |-> 0, errors |-> 0]

NoExc == [type |-> "none", msg |-> <<>>]

Exception(t, m) == [type |-> t, msg |-> m]

NoPrev ==
  [dir |-> "none", pc |-> "idle", sync_stats |-> ZeroStats, created_ids |-> {},
   created_rows |-> {}, flushed |-> FALSE]

\* No codec function has been called on its own.
NoProp == [type |-> "none"]

\* The engine is used without the window: no button, no task thread.
NoGui ==
  /\ n2s_button = TRUE
  /\ s2n_button = TRUE
  /\ sync_in_progress = FALSE
  /\ last_sync_info = "none"
  /\ threads = <<>>

Init ==
  /\ impl \in {"main", "sync"}
  /\ RATE_LIMIT_DELAY \in {0, 1}
  /\ db \in InitialDbs
  /\ sheet \in InitialSheets
  /\ nextId = 0
  /\ sync_stats = ZeroStats
  /\ pc = "idle"
  /\ dir = "none"
  /\ exc = NoExc
  /\ runs = 0
  /\ prev = NoPrev
  /\ sheet0 = sheet
  /\ payload = <<>>
  /\ results = <<>>
  /\ has_more = TRUE
  /\ responses = <<>>
  /\ headers = <<>>
  /\ sheet_data = <<>>
  /\ existing = <<>>
  /\ i = 0
  /\ update_batch = <<>>
  /\ append_batch = <<>>
  /\ batch_data = <<>>
  /\ batch_updates = <<>>
  /\ calls = <<>>
  /\ prop = NoProp
  /\ returned = <<>>
  /\ NoGui
  /\ schema = notion_db_schema
  /\ row_arg = <<>>
  /\ built = <<>>

\* ------------------------------------------------------------ environment

\* RATE_LIMIT_DELAY guards time.sleep: the wait is logged when it happens.
Sleep(cs) == IF RATE_LIMIT_DELAY > 0 THEN Append(cs, [op |-> "sleep"]) ELSE cs

\* The answers the Notion server may give to a query carrying payload pl: the
\* next 1..PageSize records after the cursor (no cursor, or None = 0: from the
\* start), has_more while records remain, next_cursor the position reached.
ServerResponses(pl) ==
  LET pos == IF pl = <<>> THEN 0 ELSE pl[1]
      left == Len(db) - pos
      sizes == IF left <= 0 THEN {0} ELSE {n \in 1..PageSize : n <= left}
  IN  { [results |-> SubSeq(db, pos + 1, pos + n),
         has_more |-> pos + n < Len(db),
         next_cursor |-> IF pos + n < Len(db) THEN pos + n ELSE 0] : n \in sizes }

HasPage(d, id) == \E k \in 1..Len(d) : d[k].id = id

\* The server applying an update call: the properties sent replace the page's.
ApplyPatch(page, props) ==
  IF ~page.ok THEN page
  ELSE [page EXCEPT !.properties =
         [n \in DOMAIN page.properties |->
           IF n \in DOMAIN props
             THEN [type |-> props[n].type, val |-> <<props[n].content>>]
             ELSE page.properties[n]]]

\* The page the server stores for a create call.
CreatedPage(id, props) ==
  [id |-> id, ok |-> TRUE,
   properties |-> [Title |-> [type |-> "title",
                              val |-> IF "Title" \in DOMAIN props
                                        THEN <<props["Title"].content>> ELSE <<>>]]]

\* ------------------------------------------------- start / end of a call

Finished == pc \in {"idle", "done", "raised"}

\* Ids of the rows of a batch of sheet rows laid out by hs.
RowIds(rws, hs) == {rws[k][IndexOf(hs, NOTION_ID_COLUMN)] : k \in 1..Len(rws)}

Summary ==
  [dir |-> dir, pc |-> pc, sync_stats |-> sync_stats,
   created_ids |-> IF append_batch = <<>> THEN {} ELSE RowIds(append_batch, headers),
   created_rows |-> { [row |-> calls[c].row, id |-> calls[c].id] :
                        c \in {d \in 1..Len(calls) : calls[d].op = "post" /\ calls[d].ok} },
   flushed |-> /\ dir = "s2n" /\ pc = "done"
               /\ Cardinality({d \in 1..Len(calls) : calls[d].op = "update" /\ calls[d].ok})
                     = Len(batch_updates)]

\* Mutant of StartCall: the counters of the previous call are kept.
StartCall_KeepsStats(d, p) ==
  /\ runs' = runs + 1
  /\ prev' = Summary
  /\ sheet0' = sheet
  /\ dir' = d
  /\ pc' = p
  /\ exc' = NoExc
  /\ sync_stats' = sync_stats
  /\ payload' = <<>>
  /\ results' = <<>>
  /\ has_more' = TRUE
  /\ responses' = <<>>
  /\ headers' = <<>>
  /\ sheet_data' = <<>>
  /\ existing' = <<>>
  /\ i' = 0
  /\ update_batch' = <<>>
  /\ append_batch' = <<>>
  /\ batch_data' = <<>>
  /\ batch_updates' = <<>>
  /\ calls' = <<>>
  /\ UNCHANGED << impl, RATE_LIMIT_DELAY, db, sheet, nextId, codec, gui >>

\* What every directional call starts from: fresh locals, counters at zero.
StartCall(d, p) ==
  /\ runs' = runs + 1
  /\ prev' = Summary
  /\ sheet0' = sheet
  /\ dir' = d
  /\ pc' = p
  /\ exc' = NoExc
  /\ sync_stats' = ZeroStats
  /\ payload' = <<>>
  /\ results' = <<>>
  /\ has_more' = TRUE
  /\ responses' = <<>>
  /\ headers' = <<>>
  /\ sheet_data' = <<>>
  /\ existing' = <<>>
  /\ i' = 0
  /\ update_batch' = <<>>
  /\ append_batch' = <<>>
  /\ batch_data' = <<>>
  /\ batch_updates' = <<>>
  /\ calls' = <<>>
  /\ UNCHANGED << impl, RATE_LIMIT_DELAY, db, sheet, nextId, codec, gui >>

\* The call ends with exception e.
Raise(e) == pc' = "raised" /\ exc' = e

\* ---------------------------------------------------- sync_notion_to_sheets

\* sync_notion_to_sheets is called: the counters are reset and the fetch starts.
sync_notion_to_sheets ==
  /\ Finished
  /\ runs < MaxRuns
  /\ StartCall("n2s", "fetch")

\* ---- _fetch_all_notion_pages

\* Mutant of main_fetch_page: the cursor of the first response is kept, the
\* cursors of later responses are not stored.
main_fetch_page_KeepsCursor ==
  /\ pc = "fetch" /\ impl = "main" /\ has_more
  /\ \E data \in ServerResponses(payload) :
       /\ results' = results \o data.results
       /\ has_more' = data.has_more
       /\ payload' = IF payload = <<>> THEN <<data.next_cursor>> ELSE payload
       /\ responses' = Append(responses, data)
       /\ calls' = Sleep(Append(calls, [op |-> "query", payload |-> payload, ok |-> TRUE]))
       /\ IF data.has_more
            THEN /\ pc' = "fetch"
                 /\ UNCHANGED << headers, batch_data, i >>
            ELSE /\ headers' = ExpectedHeaders
                 /\ batch_data' = <<ExpectedHeaders>>
                 /\ i' = 1
                 /\ pc' = IF results' = <<>> THEN "clear" ELSE "classify"
  /\ UNCHANGED << env, db, sheet, nextId, sync_stats, dir, exc, runs, prev,
                  sheet_data, existing, update_batch, append_batch, batch_updates >>

\* src/main.py: one iteration of `while has_more`; when the loop ends the
\* caller builds headers and batch_data and enters its page loop.
main_fetch_page ==
  /\ pc = "fetch" /\ impl = "main" /\ has_more
  /\ \E data \in ServerResponses(payload) :
       /\ results' = results \o data.results
       /\ has_more' = data.has_more
       /\ payload' = <<data.next_cursor>>
       /\ responses' = Append(responses, data)
       /\ calls' = Sleep(Append(calls, [op |-> "query", payload |-> payload, ok |-> TRUE]))
       /\ IF data.has_more
            THEN /\ pc' = "fetch"
                 /\ UNCHANGED << headers, batch_data, i >>
            ELSE /\ headers' = ExpectedHeaders
                 /\ batch_data' = <<ExpectedHeaders>>
                 /\ i' = 1
                 /\ pc' = IF results' = <<>> THEN "clear" ELSE "classify"
  /\ UNCHANGED << env, db, sheet, nextId, sync_stats, dir, exc, runs, prev,
                  sheet_data, existing, update_batch, append_batch, batch_updates >>

\* Mutant of main_fetch_raises: the failure of a query ends the loop and the
\* records fetched so far are returned and synced.
main_fetch_raises_ReturnsPartial ==
  /\ pc = "fetch" /\ impl = "main" /\ has_more
  /\ calls' = Append(calls, [op |-> "query", payload |-> payload, ok |-> FALSE])
  /\ has_more' = FALSE
  /\ headers' = ExpectedHeaders
  /\ batch_data' = <<ExpectedHeaders>>
  /\ i' = 1
  /\ pc' = IF results = <<>> THEN "clear" ELSE "classify"
  /\ UNCHANGED << env, db, sheet, nextId, sync_stats, dir, exc, runs, prev, payload,
                  results, responses, sheet_data, existing, update_batch, append_batch,
                  batch_updates >>

\* src/main.py: the query raises; it is re-raised as a plain Exception.
main_fetch_raises ==
  /\ pc = "fetch" /\ impl = "main" /\ has_more
  /\ calls' = Append(calls, [op |-> "query", payload |-> payload, ok |-> FALSE])
  /\ Raise(Exception("Exception", <<"Failed to fetch Notion pages: ", "API Error">>))
  /\ UNCHANGED << env, db, sheet, nextId, sync_stats, dir, runs, prev, fetchLocals,
                  headers, sheet_data, i, n2sLocals, batch_updates >>

\* Mutant of sync_fetch_page: the loop is left after the first response,
\* whatever its has_more says.
sync_fetch_page_BreaksAlways ==
  /\ pc = "fetch" /\ impl = "sync"
  /\ \E data \in ServerResponses(payload) :
       /\ results' = results \o data.results
       /\ responses' = Append(responses, data)
       /\ payload' = payload
       /\ calls' = Append(calls, [op |-> "query", payload |-> payload, ok |-> TRUE])
       /\ pc' = "read"
  /\ UNCHANGED << env, db, sheet, nextId, sync_stats, dir, exc, runs, prev, has_more,
                  headers, sheet_data, i, n2sLocals, batch_updates >>

\* src/sync.py: one iteration of `while True`; a response without has_more
\* breaks the loop before the cursor is set and before the wait.
sync_fetch_page ==
  /\ pc = "fetch" /\ impl = "sync"
  /\ \E data \in ServerResponses(payload) :
       /\ results' = results \o data.results
       /\ responses' = Append(responses, data)
       /\ IF data.has_more
            THEN /\ payload' = <<data.next_cursor>>
                 /\ calls' = Sleep(Append(calls, [op |-> "query", payload |-> payload, ok |-> TRUE]))
                 /\ pc' = "fetch"
            ELSE /\ payload' = payload
                 /\ calls' = Append(calls, [op |-> "query", payload |-> payload, ok |-> TRUE])
                 /\ pc' = "read"
  /\ UNCHANGED << env, db, sheet, nextId, sync_stats, dir, exc, runs, prev, has_more,
                  headers, sheet_data, i, n2sLocals, batch_updates >>

\* src/sync.py: raise_for_status raises; nothing catches it.
sync_fetch_raises ==
  /\ pc = "fetch" /\ impl = "sync"
  /\ calls' = Append(calls, [op |-> "query", payload |-> payload, ok |-> FALSE])
  /\ Raise(Exception("HTTPError", <<"API Error">>))
  /\ UNCHANGED << env, db, sheet, nextId, sync_stats, dir, runs, prev, fetchLocals,
                  headers, sheet_data, i, n2sLocals, batch_updates >>

\* ---- src/sync.py: read the sheet, check it, index it

\* Mutant of ExistingIndex: the last data row is left out of the index.
ExistingIndex_SkipLastRow(data, idx) ==
  LET ids == {data[r][idx] : r \in {q \in 2..(Len(data) - 1) : Len(data[q]) >= idx /\ data[q][idx] # ""}}
  IN  [d \in ids |->
        CHOOSE r \in 2..(Len(data) - 1) :
          /\ data[r][idx] = d
          /\ \A q \in 2..(Len(data) - 1) : data[q][idx] = d => q <= r]

\* existing = {row[id_index]: i + 2 ...}: a later row with the same id wins.
ExistingIndex(data, idx) ==
  LET ids == {data[r][idx] : r \in {q \in 2..Len(data) : Len(data[q]) >= idx /\ data[q][idx] # ""}}
  IN  [d \in ids |->
        CHOOSE r \in 2..Len(data) :
          /\ data[r][idx] = d
          /\ \A q \in 2..Len(data) : data[q][idx] = d => q <= r]

\* Where the call goes once every page is classified.
AfterClassify(ub, ab) ==
  IF ub # <<>> THEN "write_updates" ELSE IF ab # <<>> THEN "append" ELSE "done"

sync_read_sheet ==
  /\ pc = "read" /\ impl = "sync"
  /\ headers' = ExpectedHeaders
  /\ sheet_data' = sheet
  /\ calls' = Append(calls, [op |-> "get_all_values", ok |-> TRUE])
  /\ IF sheet = <<>>
       THEN /\ Raise(Exception("Exception", <<"Sheet is empty or missing headers.">>))
            /\ UNCHANGED << existing, i >>
     ELSE IF sheet[1] # ExpectedHeaders
       THEN /\ Raise(Exception("Exception", <<"Sheet headers do not match Notion properties.">>))
            /\ UNCHANGED << existing, i >>
     ELSE /\ existing' = ExistingIndex(sheet, IndexOf(ExpectedHeaders, NOTION_ID_COLUMN))
          /\ i' = 1
          /\ pc' = IF results = <<>> THEN "done" ELSE "classify"
          /\ exc' = exc
  /\ UNCHANGED << env, db, sheet, nextId, sync_stats, dir, runs, prev, fetchLocals,
                  update_batch, append_batch, batch_data, batch_updates >>

sync_read_sheet_raises ==
  /\ pc = "read" /\ impl = "sync"
  /\ headers' = ExpectedHeaders
  /\ calls' = Append(calls, [op |-> "get_all_values", ok |-> FALSE])
  /\ Raise(Exception("APIError", <<"get_all_values">>))
  /\ UNCHANGED << env, db, sheet, nextId, sync_stats, dir, runs, prev, fetchLocals,
                  sheet_data, i, n2sLocals, batch_updates >>

\* ---- src/sync.py: classify one page (the body of `for i, page in enumerate(pages)`)

sync_classify_page ==
  /\ pc = "classify" /\ impl = "sync"
  /\ LET page == results[i] IN
       IF FormatRaises(page)
         THEN /\ sync_stats' = [sync_stats EXCEPT !.errors = @ + 1]
              /\ UNCHANGED << update_batch, append_batch, calls >>
         ELSE LET row_data == format_notion_page_for_sheet(impl, page, headers) IN
              /\ IF page.id \in DOMAIN existing
                   THEN /\ update_batch' =
                             Append(update_batch,
                                    [a1 |-> rowcol_to_a1(existing[page.id], 1),
                                     values |-> <<row_data>>])
                        /\ sync_stats' = [sync_stats EXCEPT !.updated = @ + 1]
                        /\ UNCHANGED append_batch
                   ELSE /\ append_batch' = Append(append_batch, row_data)
                        /\ sync_stats' = [sync_stats EXCEPT !.created = @ + 1]
                        /\ UNCHANGED update_batch
              /\ calls' = Sleep(calls)
  /\ IF i = Len(results)
       THEN /\ pc' = AfterClassify(update_batch', append_batch')
            /\ i' = 1
       ELSE /\ pc' = "classify"
            /\ i' = i + 1
  /\ UNCHANGED << env, db, sheet, nextId, dir, exc, runs, prev, fetchLocals, headers,
                  sheet_data, existing, batch_data, batch_updates >>

\* ---- src/sync.py: the writes

sync_write_update ==
  /\ pc = "write_updates" /\ impl = "sync"
  /\ LET u == update_batch[i] IN
       /\ a1_to_rowcol(u.a1).ok
       /\ sheet' = sheet_update(sheet, u.a1, u.values)
       /\ calls' = Append(calls, [op |-> "update", range |-> u.a1, values |-> u.values, ok |-> TRUE])
  /\ IF i = Len(update_batch)
       THEN /\ pc' = IF append_batch # <<>> THEN "append" ELSE "done"
            /\ i' = 1
       ELSE /\ pc' = "write_updates"
            /\ i' = i + 1
  /\ UNCHANGED << env, db, nextId, sync_stats, dir, exc, runs, prev, fetchLocals, headers,
                  sheet_data, n2sLocals, batch_updates >>

sync_write_update_raises ==
  /\ pc = "write_updates" /\ impl = "sync"
  /\ LET u == update_batch[i] IN
       calls' = Append(calls, [op |-> "update", range |-> u.a1, values |-> u.values, ok |-> FALSE])
  /\ Raise(Exception("APIError", <<"update">>))
  /\ UNCHANGED << env, db, sheet, nextId, sync_stats, dir, runs, prev, fetchLocals, headers,
                  sheet_data, i, n2sLocals, batch_updates >>

\* Mutant of sync_append_rows: the rows of the batch are appended last first.
sync_append_rows_Reversed ==
  /\ pc = "append" /\ impl = "sync"
  /\ LET rev == [k \in 1..Len(append_batch) |-> append_batch[Len(append_batch) + 1 - k]] IN
       /\ sheet' = sheet_append_rows(sheet, rev)
       /\ calls' = Append(calls, [op |-> "append_rows", values |-> rev, ok |-> TRUE])
  /\ pc' = "done"
  /\ UNCHANGED << env, db, nextId, sync_stats, dir, exc, runs, prev, fetchLocals, headers,
                  sheet_data, i, n2sLocals, batch_updates >>

sync_append_rows ==
  /\ pc = "append" /\ impl = "sync"
  /\ sheet' = sheet_append_rows(sheet, append_batch)
  /\ calls' = Append(calls, [op |-> "append_rows", values |-> append_batch, ok |-> TRUE])
  /\ pc' = "done"
  /\ UNCHANGED << env, db, nextId, sync_stats, dir, exc, runs, prev, fetchLocals, headers,
                  sheet_data, i, n2sLocals, batch_updates >>

sync_append_rows_raises ==
  /\ pc = "append" /\ impl = "sync"
  /\ calls' = Append(calls, [op |-> "append_rows", values |-> append_batch, ok |-> FALSE])
  /\ Raise(Exception("APIError", <<"append_rows">>))
  /\ UNCHANGED << env, db, sheet, nextId, sync_stats, dir, runs, prev, fetchLocals, headers,
                  sheet_data, i, n2sLocals, batch_updates >>

\* ---- src/main.py: format one page into batch_data

main_format_page ==
  /\ pc = "classify" /\ impl = "main"
  /\ LET page == results[i] IN
       IF FormatRaises(page)
         THEN /\ sync_stats' = [sync_stats EXCEPT !.errors = @ + 1]
              /\ UNCHANGED batch_data
         ELSE /\ batch_data' = Append(batch_data, format_notion_page_for_sheet(impl, page, headers))
              /\ UNCHANGED sync_stats
  /\ IF i = Len(results)
       THEN pc' = "clear" /\ i' = 1
       ELSE pc' = "classify" /\ i' = i + 1
  /\ UNCHANGED << env, db, sheet, nextId, dir, exc, runs, prev, fetchLocals, headers,
                  sheet_data, existing, update_batch, append_batch, batch_updates, calls >>

\* ---- src/main.py: clear the sheet, then write everything at A1

main_clear_sheet ==
  /\ pc = "clear" /\ impl = "main"
  /\ sheet' = sheet_clear(sheet)
  /\ calls' = Append(calls, [op |-> "clear", ok |-> TRUE])
  /\ pc' = "update"
  /\ UNCHANGED << env, db, nextId, sync_stats, dir, exc, runs, prev, fetchLocals, headers,
                  sheet_data, i, n2sLocals, batch_updates >>

\* Mutant of main_clear_sheet_raises: the failure of the write is counted in
\* errors and the call goes on with its remaining write.
main_clear_sheet_raises_CountsError ==
  /\ pc = "clear" /\ impl = "main"
  /\ calls' = Append(calls, [op |-> "clear", ok |-> FALSE])
  /\ sync_stats' = [sync_stats EXCEPT !.errors = @ + 1]
  /\ pc' = "update"
  /\ UNCHANGED << env, db, sheet, nextId, dir, exc, runs, prev, fetchLocals, headers,
                  sheet_data, i, n2sLocals, batch_updates >>

main_clear_sheet_raises ==
  /\ pc = "clear" /\ impl = "main"
  /\ calls' = Append(calls, [op |-> "clear", ok |-> FALSE])
  /\ Raise(Exception("Exception", <<"Failed to update Google Sheet: ", "clear">>))
  /\ UNCHANGED << env, db, sheet, nextId, sync_stats, dir, runs, prev, fetchLocals, headers,
                  sheet_data, i, n2sLocals, batch_updates >>

main_update_sheet ==
  /\ pc = "update" /\ impl = "main"
  /\ sheet' = sheet_update(sheet, "A1", batch_data)
  /\ calls' = Append(calls, [op |-> "update", range |-> "A1", values |-> batch_data, ok |-> TRUE])
  /\ sync_stats' = [sync_stats EXCEPT !.updated = Len(results)]
  /\ pc' = "done"
  /\ UNCHANGED << env, db, nextId, dir, exc, runs, prev, fetchLocals, headers,
                  sheet_data, i, n2sLocals, batch_updates >>

main_update_sheet_raises ==
  /\ pc = "update" /\ impl = "main"
  /\ calls' = Append(calls, [op |-> "update", range |-> "A1", values |-> batch_data, ok |-> FALSE])
  /\ Raise(Exception("Exception", <<"Failed to update Google Sheet: ", "update">>))
  /\ UNCHANGED << env, db, sheet, nextId, sync_stats, dir, runs, prev, fetchLocals, headers,
                  sheet_data, i, n2sLocals, batch_updates >>

NextN2S ==
  \/ sync_notion_to_sheets
  \/ main_fetch_page \/ main_fetch_raises
  \/ sync_fetch_page \/ sync_fetch_raises
  \/ sync_read_sheet \/ sync_read_sheet_raises
  \/ sync_classify_page
  \/ sync_write_update \/ sync_write_update_raises
  \/ sync_append_rows \/ sync_append_rows_raises
  \/ main_format_page
  \/ main_clear_sheet \/ main_clear_sheet_raises
  \/ main_update_sheet \/ main_update_sheet_raises

SpecN2S == Init /\ [][NextN2S]_vars

\* ---------------------------------------------------- sync_sheets_to_notion

\* sync_sheets_to_notion is called: the counters are reset, the sheet is read next.
sync_sheets_to_notion ==
  /\ Finished
  /\ runs < MaxRuns
  /\ StartCall("s2n", "s2n_read")

\* The exception for a header row without the id column: src/main.py tests
\* membership and raises its own message, src/sync.py lets list.index raise.
MissingIdColumn(im) ==
  IF im = "main"
    THEN Exception("Exception", <<"'", NOTION_ID_COLUMN, "' column ", "not found", " in sheet.">>)
    ELSE Exception("ValueError", <<"'", NOTION_ID_COLUMN, "' is not in list">>)

\* Mutant of s2n_read_sheet: the header row is compared with the expected
\* header, as sync_notion_to_sheets of src/sync.py does.
s2n_read_sheet_ChecksHeader ==
  /\ pc = "s2n_read"
  /\ sheet_data' = sheet
  /\ calls' = Append(calls, [op |-> "get_all_values", ok |-> TRUE])
  /\ IF sheet = <<>>
       THEN /\ Raise(Exception("Exception", <<"Sheet is empty.">>))
            /\ UNCHANGED << headers, i >>
     ELSE IF IndexOf(sheet[1], NOTION_ID_COLUMN) = 0
       THEN /\ Raise(MissingIdColumn(impl))
            /\ headers' = sheet[1]
            /\ UNCHANGED i
     ELSE IF sheet[1] # ExpectedHeaders
       THEN /\ Raise(Exception("Exception", <<"Sheet headers do not match Notion properties.">>))
            /\ headers' = sheet[1]
            /\ UNCHANGED i
     ELSE /\ headers' = sheet[1]
          /\ i' = 2
          /\ pc' = IF Len(sheet) = 1 THEN "done" ELSE "s2n_row"
          /\ exc' = exc
  /\ UNCHANGED << env, db, sheet, nextId, sync_stats, dir, runs, prev, fetchLocals,
                  n2sLocals, batch_updates >>

\* rows = self.sheet.get_all_values() and the checks before the row loop.
s2n_read_sheet ==
  /\ pc = "s2n_read"
  /\ sheet_data' = sheet
  /\ calls' = Append(calls, [op |-> "get_all_values", ok |-> TRUE])
  /\ IF sheet = <<>>
       THEN /\ Raise(Exception("Exception", <<"Sheet is empty.">>))
            /\ UNCHANGED << headers, i >>
     ELSE IF IndexOf(sheet[1], NOTION_ID_COLUMN) = 0
       THEN /\ Raise(MissingIdColumn(impl))
            /\ headers' = sheet[1]
            /\ UNCHANGED i
     ELSE /\ headers' = sheet[1]
          /\ i' = 2
          /\ pc' = IF Len(sheet) = 1 THEN "done" ELSE "s2n_row"
          /\ exc' = exc
  /\ UNCHANGED << env, db, sheet, nextId, sync_stats, dir, runs, prev, fetchLocals,
                  n2sLocals, batch_updates >>

s2n_read_sheet_raises ==
  /\ pc = "s2n_read"
  /\ calls' = Append(calls, [op |-> "get_all_values", ok |-> FALSE])
  /\ Raise(Exception("APIError", <<"get_all_values">>))
  /\ UNCHANGED << env, db, sheet, nextId, sync_stats, dir, runs, prev, fetchLocals,
                  headers, sheet_data, i, n2sLocals, batch_updates >>

\* id_column_index (0-based, as in the source)
id_column_index == IndexOf(headers, NOTION_ID_COLUMN) - 1

\* Mutant of RowPageId: the id cell is ignored, every row counts as new.
RowPageId_AlwaysNone(row) == ""

\* notion_page_id of the row being processed: its id cell, None ("") when the
\* row is too short or the cell is empty.
RowPageId(row) ==
  IF Len(row) > id_column_index /\ row[id_column_index + 1] # ""
    THEN row[id_column_index + 1] ELSE ""

\* Mutant of WriteBackRange: the row below is addressed (the header row is
\* counted twice).
WriteBackRange_RowBelow(im, row_index, idx) == rowcol_to_a1(row_index + 1, idx + 1)

\* The address of the id cell of sheet row row_index: src/main.py builds it
\* from chr(65 + index), src/sync.py with rowcol_to_a1.
WriteBackRange(im, row_index, idx) ==
  IF im = "main" THEN Chr(65 + idx) \o IntToStr(row_index)
  ELSE rowcol_to_a1(row_index, idx + 1)

\* The row loop moves on; after the last row the queued write-backs are flushed.
NextRow(bu) ==
  IF i = Len(sheet_data)
    THEN /\ pc' = IF bu # <<>> THEN "flush" ELSE "done"
         /\ i' = 1
    ELSE /\ pc' = "s2n_row"
         /\ i' = i + 1

\* A row with an id: the update (PATCH) call succeeds.
s2n_update_page ==
  /\ pc = "s2n_row"
  /\ LET row == sheet_data[i]
         properties == build_notion_properties_from_row(impl, row, headers)
         notion_page_id == RowPageId(row)
     IN  /\ notion_page_id # ""
         /\ HasPage(db, notion_page_id)
         /\ db' = [k \in 1..Len(db) |->
                    IF db[k].id = notion_page_id THEN ApplyPatch(db[k], properties) ELSE db[k]]
         /\ calls' = Sleep(Append(calls, [op |-> "patch", id |-> notion_page_id,
                                          properties |-> properties, row |-> i, ok |-> TRUE]))
  /\ sync_stats' = [sync_stats EXCEPT !.updated = @ + 1]
  /\ NextRow(batch_updates)
  /\ UNCHANGED << env, sheet, nextId, dir, exc, runs, prev, fetchLocals, headers,
                  sheet_data, n2sLocals, batch_updates >>

\* A row with an id: the update call raises; the handler counts an error.
s2n_update_page_fails ==
  /\ pc = "s2n_row"
  /\ LET row == sheet_data[i]
         properties == build_notion_properties_from_row(impl, row, headers)
         notion_page_id == RowPageId(row)
     IN  /\ notion_page_id # ""
         /\ calls' = Append(calls, [op |-> "patch", id |-> notion_page_id,
                                    properties |-> properties, row |-> i, ok |-> FALSE])
  /\ sync_stats' = [sync_stats EXCEPT !.errors = @ + 1]
  /\ NextRow(batch_updates)
  /\ UNCHANGED << env, db, sheet, nextId, dir, exc, runs, prev, fetchLocals, headers,
                  sheet_data, n2sLocals, batch_updates >>

\* Mutant of s2n_create_page: the new id is written back to the sheet at once,
\* inside the row loop, instead of being queued.
s2n_create_page_WritesBackAtOnce ==
  /\ pc = "s2n_row"
  /\ LET row == sheet_data[i]
         properties == build_notion_properties_from_row(impl, row, headers)
         new_page_id == NewIdName[nextId + 1]
         range == WriteBackRange(impl, i, id_column_index)
     IN  /\ RowPageId(row) = ""
         /\ a1_to_rowcol(range).ok
         /\ db' = Append(db, CreatedPage(new_page_id, properties))
         /\ nextId' = nextId + 1
         /\ sheet' = sheet_update(sheet, range, << <<new_page_id>> >>)
         /\ calls' = Sleep(Append(Append(calls,
                        [op |-> "post", id |-> new_page_id,
                         properties |-> properties, row |-> i, ok |-> TRUE]),
                        [op |-> "update", range |-> range,
                         values |-> << <<new_page_id>> >>, ok |-> TRUE]))
         /\ NextRow(batch_updates)
  /\ sync_stats' = [sync_stats EXCEPT !.created = @ + 1]
  /\ UNCHANGED << env, dir, exc, runs, prev, fetchLocals, headers,
                  sheet_data, n2sLocals, batch_updates >>

\* A row without an id: the create (POST) call succeeds and the write-back of
\* the new id is queued.
s2n_create_page ==
  /\ pc = "s2n_row"
  /\ LET row == sheet_data[i]
         properties == build_notion_properties_from_row(impl, row, headers)
         new_page_id == NewIdName[nextId + 1]
         bu == Append(batch_updates,
                      [range |-> WriteBackRange(impl, i, id_column_index),
                       values |-> << <<new_page_id>> >>])
     IN  /\ RowPageId(row) = ""
         /\ db' = Append(db, CreatedPage(new_page_id, properties))
         /\ nextId' = nextId + 1
         /\ batch_updates' = bu
         /\ calls' = Sleep(Append(calls, [op |-> "post", id |-> new_page_id,
                                          properties |-> properties, row |-> i, ok |-> TRUE]))
         /\ NextRow(bu)
  /\ sync_stats' = [sync_stats EXCEPT !.created = @ + 1]
  /\ UNCHANGED << env, sheet, dir, exc, runs, prev, fetchLocals, headers,
                  sheet_data, n2sLocals >>

\* Mutant of s2n_create_page_fails: no handler around the row, the exception
\* of the create call ends the whole call.
s2n_create_page_fails_Aborts ==
  /\ pc = "s2n_row"
  /\ LET row == sheet_data[i]
         properties == build_notion_properties_from_row(impl, row, headers)
     IN  /\ RowPageId(row) = ""
         /\ calls' = Append(calls, [op |-> "post", id |-> "",
                                    properties |-> properties, row |-> i, ok |-> FALSE])
  /\ Raise(Exception("HTTPError", <<"API Error">>))
  /\ UNCHANGED << env, db, sheet, nextId, sync_stats, dir, runs, prev, fetchLocals, headers,
                  sheet_data, i, n2sLocals, batch_updates >>

\* A row without an id: the create call raises; the handler counts an error.
s2n_create_page_fails ==
  /\ pc = "s2n_row"
  /\ LET row == sheet_data[i]
         properties == build_notion_properties_from_row(impl, row, headers)
     IN  /\ RowPageId(row) = ""
         /\ calls' = Append(calls, [op |-> "post", id |-> "",
                                    properties |-> properties, row |-> i, ok |-> FALSE])
  /\ sync_stats' = [sync_stats EXCEPT !.errors = @ + 1]
  /\ NextRow(batch_updates)
  /\ UNCHANGED << env, db, sheet, nextId, dir, exc, runs, prev, fetchLocals, headers,
                  sheet_data, n2sLocals, batch_updates >>

\* One queued write-back is written to the sheet (src/main.py then waits).
s2n_flush_update ==
  /\ pc = "flush"
  /\ LET u == batch_updates[i] IN
       /\ a1_to_rowcol(u.range).ok
       /\ sheet' = sheet_update(sheet, u.range, u.values)
       /\ calls' = LET cs == Append(calls, [op |-> "update", range |-> u.range,
                                            values |-> u.values, ok |-> TRUE])
                   IN  IF impl = "main" THEN Sleep(cs) ELSE cs
  /\ IF i = Len(batch_updates)
       THEN pc' = "done" /\ i' = 1
       ELSE pc' = "flush" /\ i' = i + 1
  /\ UNCHANGED << env, db, nextId, sync_stats, dir, exc, runs, prev, fetchLocals, headers,
                  sheet_data, n2sLocals, batch_updates >>

\* src/main.py: a write-back raises inside the try around the whole flush
\* loop: a warning is logged, the loop is left and the call returns.
main_flush_update_fails ==
  /\ pc = "flush" /\ impl = "main"
  /\ LET u == batch_updates[i] IN
       calls' = Append(calls, [op |-> "update", range |-> u.range,
                               values |-> u.values, ok |-> FALSE])
  /\ pc' = "done"
  /\ UNCHANGED << env, db, sheet, nextId, sync_stats, dir, exc, runs, prev, fetchLocals,
                  headers, sheet_data, i, n2sLocals, batch_updates >>

\* src/sync.py: a write-back raises and nothing catches it.
sync_flush_update_raises ==
  /\ pc = "flush" /\ impl = "sync"
  /\ LET u == batch_updates[i] IN
       calls' = Append(calls, [op |-> "update", range |-> u.range,
                               values |-> u.values, ok |-> FALSE])
  /\ Raise(Exception("APIError", <<"update">>))
  /\ UNCHANGED << env, db, sheet, nextId, sync_stats, dir, runs, prev, fetchLocals,
                  headers, sheet_data, i, n2sLocals, batch_updates >>

NextS2N ==
  \/ sync_sheets_to_notion
  \/ s2n_read_sheet \/ s2n_read_sheet_raises
  \/ s2n_update_page \/ s2n_update_page_fails
  \/ s2n_create_page \/ s2n_create_page_fails
  \/ s2n_flush_update
  \/ main_flush_update_fails
  \/ sync_flush_update_raises

SpecS2N == Init /\ [][NextS2N]_vars

\* ------------------------------------------------------------ the engine

Next == NextN2S \/ NextS2N

Spec == Init /\ [][Next]_vars

\* ---------------------------------------------- the codec called on its own

\* The fragments of a title / rich_text value.
Fragments == {"", "A", "B"}

\* The dates, option names and numbers the property objects hold.
Dates == {"2023-12-01", "2023-12-02"}
OptionNames == {"Active", "Inactive", "Other"}
Numbers ==
  { Number(FALSE, ng, u, "") : ng \in BOOLEAN, u \in {0, 5, 1000} }
    \cup { Number(TRUE, ng, u, f) : ng \in BOOLEAN, u \in {0, 42}, f \in {"0", "5"} }

\* The property objects _extract_value_from_prop is called with.
PropInputs ==
  { [type |-> t, val |-> v] : t \in {"title", "rich_text"}, v \in SeqsUpTo(Fragments, MaxFragments) }
    \cup { [type |-> "checkbox", val |-> b] : b \in BOOLEAN }
    \cup { [type |-> t, val |-> [name |-> n]] : t \in {"select", "status"}, n \in OptionNames }
    \cup { [type |-> "number", val |-> n] : n \in Numbers }
    \cup { [type |-> "date", val |-> [start |-> a, end |-> b]] : a \in Dates, b \in Dates \cup {""} }
    \cup { [type |-> t] :
              t \in {"title", "rich_text", "checkbox", "select", "status", "number", "date"} }

\* An engine object on which no directional sync runs.
EngineIdle ==
  /\ RATE_LIMIT_DELAY = 0
  /\ db = <<>>
  /\ sheet = <<>>
  /\ nextId = 0
  /\ sync_stats = ZeroStats
  /\ pc = "idle"
  /\ dir = "none"
  /\ exc = NoExc
  /\ runs = 0
  /\ prev = NoPrev
  /\ sheet0 = sheet
  /\ payload = <<>>
  /\ results = <<>>
  /\ has_more = TRUE
  /\ responses = <<>>
  /\ sheet_data = <<>>
  /\ existing = <<>>
  /\ i = 0
  /\ update_batch = <<>>
  /\ append_batch = <<>>
  /\ batch_data = <<>>
  /\ batch_updates = <<>>
  /\ calls = <<>>

engine == << RATE_LIMIT_DELAY, db, sheet, nextId, sync_stats, pc, dir, exc, runs, prev,
             sheet0, payload, results, has_more, responses, sheet_data, existing, i,
             update_batch, append_batch, batch_data, batch_updates, calls >>

InitCodec ==
  /\ impl \in {"main", "sync"}
  /\ prop \in PropInputs
  /\ returned = <<>>
  /\ EngineIdle
  /\ NoGui
  /\ headers = <<>>
  /\ schema = notion_db_schema
  /\ row_arg = <<>>
  /\ built = <<>>

\* self._extract_value_from_prop(prop) is called and returns.
call_extract_value_from_prop ==
  /\ returned = <<>>
  /\ returned' = <<extract_value_from_prop(impl, prop)>>
  /\ UNCHANGED << impl, engine, gui, headers, prop, schema, row_arg, built >>

NextCodec == call_extract_value_from_prop

SpecCodec == InitCodec /\ [][NextCodec]_vars

\* ---- _build_notion_properties_from_row called on its own

\* The schema entries of the typed column "P" of the rows given to the builder.
TypedColumns ==
  { [name |-> "P", type |-> t] : t \in {"checkbox", "number", "url", "email", "select"} }
    \cup { [name |-> "P", type |-> "select", options |-> <<"Active", "Inactive">>] }

\* The cell texts tried under a column of each type.
CellsFor(typ) ==
  IF typ = "checkbox"
    THEN {"TRUE", "true", "YES", "yes", "1", CHECK_MARK, "FALSE", "false", "NO", "0", "",
          "random", " true "}
  ELSE IF typ = "number"
    THEN {"42.5", "0", "5", "1,000", "$5", "5$", "-5", ".5", "5.", "1.50", "invalid_number",
          "1.2.3", "$", "", " "}
  ELSE IF typ = "url"
    THEN {"https://example.com", "http://example.com", "not_a_url", "HTTP://EXAMPLE.COM",
          "ftp://example.com", ""}
  ELSE IF typ = "email"
    THEN {"test@example.com", "not_an_email", "@", ""}
  ELSE {"Active", "Inactive", "Other", "active", " Active ", ""}

\* The cell texts of the title column of those rows.
TitleCells == {"Test", ""}

BuildHeaders == <<"Title", "P", NOTION_ID_COLUMN>>

\* The (schema, row) pairs the builder is called with; the header row is
\* BuildHeaders and the row has no id yet.
BuildInputs ==
  UNION { { [schema |-> <<[name |-> "Title", type |-> "title"], e>>, row |-> <<t, c, "">>] :
              t \in TitleCells, c \in CellsFor(e.type) } : e \in TypedColumns }

InitBuild ==
  /\ impl \in {"main", "sync"}
  /\ \E b \in BuildInputs : schema = b.schema /\ row_arg = b.row
  /\ headers = BuildHeaders
  /\ built = <<>>
  /\ prop = NoProp
  /\ returned = <<>>
  /\ EngineIdle
  /\ NoGui

\* self._build_notion_properties_from_row(row, headers) is called and returns.
call_build_notion_properties_from_row ==
  /\ built = <<>>
  /\ built' = <<BuildFromIn(impl, schema, row_arg, headers, 1, <<>>)>>
  /\ UNCHANGED << impl, engine, gui, headers, prop, returned, schema, row_arg >>

NextBuild == call_build_notion_properties_from_row

SpecBuild == InitBuild /\ [][NextBuild]_vars

\* ---- a value taken from Notion to the sheet and back

\* The values of the types that round-trip: select, checkbox, number.
RoundTripValues ==
  { [type |-> "checkbox", val |-> b] : b \in BOOLEAN }
    \cup { [type |-> "select", val |-> [name |-> n]] : n \in OptionNames }
    \cup { [type |-> "number", val |-> n] : n \in Numbers }

\* The schema entries a column holding the value v can have.
RoundTripColumns(v) ==
  IF v.type = "select"
    THEN { [name |-> "P", type |-> "select"],
           [name |-> "P", type |-> "select", options |-> <<"Active", "Inactive", "Other">>] }
    ELSE { [name |-> "P", type |-> v.type] }

\* The property objects Notion can return for a page written with the
\* payload p of a property: the payload under its type key; a number arrives
\* as a JSON number, so an integral float may come back as an int.
StoredProperties(p) ==
  IF p.type = "select" THEN { [type |-> "select", val |-> [name |-> p.content]] }
  ELSE IF p.type = "number"
    THEN { [type |-> "number", val |-> p.content] }
           \cup (IF p.content.frac = "0"
                   THEN { [type |-> "number",
                           val |-> Number(FALSE, p.content.neg, p.content.units, "")] }
                   ELSE {})
  ELSE { [type |-> p.type, val |-> p.content] }

InitRoundTrip ==
  /\ impl \in {"main", "sync"}
  /\ prop \in RoundTripValues
  /\ \E e \in RoundTripColumns(prop) : schema = <<[name |-> "Title", type |-> "title"], e>>
  /\ headers = BuildHeaders
  /\ row_arg = <<>>
  /\ returned = <<>>
  /\ built = <<>>
  /\ EngineIdle
  /\ NoGui

\* _format_notion_page_for_sheet: the value is extracted into its cell of the row.
rt_extract ==
  /\ returned = <<>>
  /\ returned' = <<extract_value_from_prop(impl, prop)>>
  /\ row_arg' = <<"Test", extract_value_from_prop(impl, prop), "">>
  /\ UNCHANGED << impl, engine, gui, headers, prop, schema, built >>

\* _build_notion_properties_from_row on that row.
rt_build ==
  /\ Len(returned) = 1
  /\ built = <<>>
  /\ built' = <<BuildFromIn(impl, schema, row_arg, headers, 1, <<>>)>>
  /\ UNCHANGED << impl, engine, gui, headers, prop, returned, schema, row_arg >>

\* The property that was written is fetched and extracted again.
rt_extract_again ==
  /\ Len(returned) = 1
  /\ built # <<>>
  /\ "P" \in DOMAIN built[1]
  /\ \E p \in StoredProperties(built[1]["P"]) :
        returned' = returned \o <<extract_value_from_prop(impl, p)>>
  /\ UNCHANGED << impl, engine, gui, headers, prop, schema, row_arg, built >>

NextRoundTrip == rt_extract \/ rt_build \/ rt_extract_again

SpecRoundTrip == InitRoundTrip /\ [][NextRoundTrip]_vars

\* ---- the write-back address computed on its own

\* A header row of n property columns followed by the id column.
WideHeader(n) == [c \in 1..(n + 1) |-> IF c = n + 1 THEN NOTION_ID_COLUMN ELSE "c" \o IntToStr(c)]

\* The engine has read a sheet whose id column stands at any position, and
\* has just created the page of the data row at sheet row i.
InitWriteBack ==
  /\ impl \in {"main", "sync"}
  /\ headers \in { WideHeader(n) : n \in 0..(MaxIdColumn - 1) }
  /\ RATE_LIMIT_DELAY = 0
  /\ db = <<>>
  /\ sheet = <<>>
  /\ nextId = 1
  /\ sync_stats = ZeroStats
  /\ pc = "idle"
  /\ dir = "none"
  /\ exc = NoExc
  /\ runs = 0
  /\ prev = NoPrev
  /\ sheet0 = sheet
  /\ payload = <<>>
  /\ results = <<>>
  /\ has_more = TRUE
  /\ responses = <<>>
  /\ sheet_data = <<>>
  /\ existing = <<>>
  /\ i \in 2..MaxSheetRow
  /\ update_batch = <<>>
  /\ append_batch = <<>>
  /\ batch_data = <<>>
  /\ batch_updates = <<>>
  /\ calls = <<>>
  /\ prop = NoProp
  /\ returned = <<>>
  /\ schema = notion_db_schema
  /\ row_arg = <<>>
  /\ built = <<>>
  /\ NoGui

\* batch_updates.append(...) after the create call of row i has succeeded.
queue_write_back ==
  /\ batch_updates = <<>>
  /\ batch_updates' = <<[range |-> WriteBackRange(impl, i, id_column_index),
                         values |-> << <<NewIdName[nextId]>> >>]>>
  /\ UNCHANGED << env, db, sheet, nextId, sync_stats, pc, dir, exc, runs, prev, fetchLocals,
                  headers, sheet_data, i, n2sLocals, calls >>

NextWriteBack == queue_write_back

SpecWriteBack == InitWriteBack /\ [][NextWriteBack]_vars

\* ------------------------------------------------------- the window, main()

\* A task thread is [target, at]: target is the directional sync it runs
\* ("n2s" for notion_to_sheets_task, "s2n" for sheets_to_notion_task) and at
\* is where it stands: "start" (started, nothing executed), "try" (past
\* set_ui_locking(True), in the directional sync), "finally" (the sync has
\* returned or raised, set_ui_locking(False) not yet executed), "ended".
\* The directional sync a thread runs is one step here: its effect on the
\* sheet and on Notion is the engine's and is not repeated.

\* page.add(...): both buttons get disabled = buttons_disabled, which is True
\* when the configuration is incomplete; no thread exists.
InitGui ==
  /\ impl = "main"
  /\ \E buttons_disabled \in BOOLEAN :
        n2s_button = buttons_disabled /\ s2n_button = buttons_disabled
  /\ sync_in_progress = FALSE
  /\ last_sync_info = "none"
  /\ threads = <<>>
  /\ prop = NoProp
  /\ returned = <<>>
  /\ schema = notion_db_schema
  /\ row_arg = <<>>
  /\ built = <<>>
  /\ headers = <<>>
  /\ EngineIdle

\* set_ui_locking(is_locked)
set_ui_locking(is_locked) ==
  /\ n2s_button' = is_locked
  /\ s2n_button' = is_locked
  /\ sync_in_progress' = is_locked

\* threading.Thread(target=..., daemon=True).start()
StartThread(target) == threads' = Append(threads, [target |-> target, at |-> "start"])

\* A click on the Notion -> Sheets button; a disabled button delivers no click.
handle_notion_to_sheets_click ==
  /\ ~n2s_button
  /\ Len(threads) < MaxClicks
  /\ StartThread("n2s")
  /\ UNCHANGED << impl, engine, headers, codec, n2s_button, s2n_button, sync_in_progress,
                  last_sync_info >>

\* A click on the Sheets -> Notion button.
handle_sheets_to_notion_click ==
  /\ ~s2n_button
  /\ Len(threads) < MaxClicks
  /\ StartThread("s2n")
  /\ UNCHANGED << impl, engine, headers, codec, n2s_button, s2n_button, sync_in_progress,
                  last_sync_info >>

\* The first statement of a task: set_ui_locking(True).
task_lock(t) ==
  /\ threads[t].at = "start"
  /\ set_ui_locking(TRUE)
  /\ threads' = [threads EXCEPT ![t].at = "try"]
  /\ UNCHANGED << impl, engine, headers, codec, last_sync_info >>

\* The try block of a task: the directional sync returns, and the summary is
\* written to last_sync_info.
task_sync(t) ==
  /\ threads[t].at = "try"
  /\ last_sync_info' = threads[t].target
  /\ threads' = [threads EXCEPT ![t].at = "finally"]
  /\ UNCHANGED << impl, engine, headers, codec, n2s_button, s2n_button, sync_in_progress >>

\* The try block of a task: the directional sync raises; the except clause
\* shows the error and last_sync_info stays.
task_sync_raises(t) ==
  /\ threads[t].at = "try"
  /\ threads' = [threads EXCEPT ![t].at = "finally"]
  /\ UNCHANGED << impl, engine, headers, codec, n2s_button, s2n_button, sync_in_progress,
                  last_sync_info >>

\* The finally clause of a task: set_ui_locking(False); the thread ends.
task_unlock(t) ==
  /\ threads[t].at = "finally"
  /\ set_ui_locking(FALSE)
  /\ threads' = [threads EXCEPT ![t].at = "ended"]
  /\ UNCHANGED << impl, engine, headers, codec, last_sync_info >>

NextGui ==
  \/ handle_notion_to_sheets_click
  \/ handle_sheets_to_notion_click
  \/ \E t \in 1..Len(threads) : task_lock(t)
  \/ \E t \in 1..Len(threads) : task_sync(t)
  \/ \E t \in 1..Len(threads) : task_sync_raises(t)
  \/ \E t \in 1..Len(threads) : task_unlock(t)

SpecGui == InitGui /\ [][NextGui]_vars

\* ------------------------------------------------------------------ claims

\* Positions in the call log, by kind of call.
CallsOf(ops) == {c \in 1..Len(calls) : calls[c].op \in ops}
DocCalls == CallsOf({"patch", "post"})
SheetWrites == CallsOf({"clear", "update", "append_rows"})

IdCol(h) == IndexOf(h, NOTION_ID_COLUMN)

\* The data rows (their sheet row numbers) of a grid.
DataRows(g) == IF g = <<>> THEN {} ELSE 2..Len(g)

\* The fetched records whose formatting succeeds / raises.
GoodRecords == {k \in 1..Len(results) : ~FormatRaises(results[k])}
FailedRecords == {k \in 1..Len(results) : FormatRaises(results[k])}

RowOf(k) == format_notion_page_for_sheet(impl, results[k], ExpectedHeaders)

\* Record k's id is the id cell of some data row of the sheet the call started from.
Matched(k) ==
  \E r \in DataRows(sheet0) :
    Len(sheet0[r]) >= IdCol(ExpectedHeaders) /\ sheet0[r][IdCol(ExpectedHeaders)] = results[k].id

\* The successful update writes that put record k's row, alone, at column A of
\* a data row whose id cell holds k's id.
UpdatesFor(k) ==
  {c \in CallsOf({"update"}) :
     /\ calls[c].ok
     /\ calls[c].values = <<RowOf(k)>>
     /\ LET p == a1_to_rowcol(calls[c].range) IN
          /\ p.ok /\ p.col = 1 /\ p.row \in DataRows(sheet0)
          /\ sheet0[p.row][IdCol(ExpectedHeaders)] = results[k].id}

\* Record k's row is in the batch of an append call.
Appended(k) ==
  \E c \in CallsOf({"append_rows"}) : \E j \in 1..Len(calls[c].values) : calls[c].values[j] = RowOf(k)

\* An update write whose target is a data row with an empty id cell.
UpdatesEmptyIdRow ==
  \E c \in CallsOf({"update"}) :
    LET p == a1_to_rowcol(calls[c].range) IN
      /\ p.ok /\ p.row \in DataRows(sheet0)
      /\ Len(sheet0[p.row]) >= IdCol(ExpectedHeaders)
      /\ sheet0[p.row][IdCol(ExpectedHeaders)] = ""

Classification ==
  /\ \A k \in GoodRecords :
       IF Matched(k) THEN Cardinality(UpdatesFor(k)) = 1 /\ ~Appended(k)
       ELSE Appended(k) /\ UpdatesFor(k) = {}
  /\ sync_stats.updated = Cardinality({k \in GoodRecords : Matched(k)})
  /\ sync_stats.created = Cardinality({k \in GoodRecords : ~Matched(k)})
  /\ ~UpdatesEmptyIdRow

\* A sync_notion_to_sheets call that ran to its end over a sheet with the expected header.
N2SDoneOnGoodSheet ==
  /\ dir = "n2s" /\ pc = "done"
  /\ sheet0 # <<>> /\ sheet0[1] = ExpectedHeaders

\* C1: in sync_notion_to_sheets every record whose extraction succeeds yields
\* exactly one in-place update write at the row holding its id and is counted
\* in updated when its id is in the sheet read at the start, and is otherwise
\* put in the append batch and counted in created; no update write targets a
\* data row with an empty id cell.
\* (Stated for the calls in which no record fails, so that the counters count
\* only records of the claim's case.)
C1_ClassifyById == (N2SDoneOnGoodSheet /\ FailedRecords = {}) => Classification

\* The same statement for the engine of src/sync.py alone.
C1_ClassifyById_sync == (impl = "sync" /\ N2SDoneOnGoodSheet) => Classification

C1_Witness_sync ==
  /\ impl = "sync" /\ N2SDoneOnGoodSheet
  /\ \E k \in GoodRecords : Matched(k)
  /\ \E k \in GoodRecords : ~Matched(k)

\* The ids of the rows of the update batch of src/sync.py.
UpdatedIds == {update_batch[k].values[1][IdCol(ExpectedHeaders)] : k \in 1..Len(update_batch)}

\* Two sync_notion_to_sheets calls in a row, both run to their end (the first
\* one's writes all succeeded; the records are unchanged between them).
SecondN2SDone ==
  /\ dir = "n2s" /\ pc = "done"
  /\ prev.dir = "n2s" /\ prev.pc = "done"

\* C2: idempotence of sync_notion_to_sheets: when it runs twice in a row over
\* the same records and the first run's writes succeeded, the second run
\* counts no record as created, every record the first run created is now
\* matched by id and counted in updated, and the second run appends no row.
C2_Idempotent ==
  SecondN2SDone =>
    /\ sync_stats.created = 0
    /\ \A id \in prev.created_ids : id \in UpdatedIds
    /\ sync_stats.updated >= Cardinality(prev.created_ids)
    /\ CallsOf({"append_rows"}) = {}

C2_Witness == SecondN2SDone /\ prev.created_ids # {} /\ prev.sync_stats.created > 0

\* The rows (other than the header row) the sheet writes of this call carried.
RowsWritten ==
  UNION { {calls[c].values[j] : j \in 1..Len(calls[c].values)} : c \in CallsOf({"update", "append_rows"}) }
    \ {ExpectedHeaders}

\* C3: partial-failure isolation of sync_notion_to_sheets: with F the fetched
\* records that raise while being formatted, the call still reaches its end,
\* errors = |F|, created + updated = N - |F|, and rows are written exactly for
\* the N - |F| records that did not raise.
C3_PartialFailure ==
  (dir = "n2s" /\ pc = "done") =>
    /\ sync_stats.errors = Cardinality(FailedRecords)
    /\ sync_stats.created + sync_stats.updated = Len(results) - Cardinality(FailedRecords)
    /\ sync_stats.created + sync_stats.updated + sync_stats.errors = Len(results)
    /\ RowsWritten = {RowOf(k) : k \in GoodRecords}

\* The same statement for the engine of src/sync.py alone.
C3_PartialFailure_sync == impl = "sync" => C3_PartialFailure

\* ---- sync_sheets_to_notion

\* The sheet rows the row loop has dealt with so far.
RowsProcessed ==
  IF dir # "s2n" THEN {}
  ELSE IF pc = "s2n_row" THEN 2..(i - 1)
  ELSE IF pc \in {"flush", "done"} \/ (pc = "raised" /\ batch_updates # <<>>)
    THEN DataRows(sheet_data)
  ELSE {}

\* The id cell of sheet row r as read ("" when the row has no such cell).
IdCell(r) ==
  LET c == IdCol(sheet_data[1])
  IN  IF c > 0 /\ Len(sheet_data[r]) >= c THEN sheet_data[r][c] ELSE ""

CallsForRow(r) == {c \in DocCalls : calls[c].row = r}
OkCalls(op) == {c \in CallsOf({op}) : calls[c].ok}
FailedDocCalls == {c \in DocCalls : ~calls[c].ok}

\* The ids the successful create calls returned, in call order.
RECURSIVE CreatedIdsFrom(_)
CreatedIdsFrom(c) ==
  IF c > Len(calls) THEN <<>>
  ELSE IF calls[c].op = "post" /\ calls[c].ok
    THEN << << <<calls[c].id>> >> >> \o CreatedIdsFrom(c + 1)
  ELSE CreatedIdsFrom(c + 1)

\* C4: in sync_sheets_to_notion each data row triggers exactly one
\* document-store call chosen by its id cell: an update call against the id
\* when the cell is non-empty (updated counts its successes), a create call
\* when it is empty or missing (created counts its successes, and one
\* write-back of the returned id is queued per success); hence with no failure
\* the creates are the rows without id, the updates the rows with id, errors = 0.
C4_OneCallPerRow ==
  dir = "s2n" =>
    /\ \A r \in RowsProcessed :
         /\ Cardinality(CallsForRow(r)) = 1
         /\ \A c \in CallsForRow(r) :
              IF IdCell(r) # ""
                THEN calls[c].op = "patch" /\ calls[c].id = IdCell(r)
                ELSE calls[c].op = "post"
    /\ \A c \in DocCalls : calls[c].row \in RowsProcessed
    /\ sync_stats.updated = Cardinality(OkCalls("patch"))
    /\ sync_stats.created = Cardinality(OkCalls("post"))
    /\ [k \in 1..Len(batch_updates) |-> batch_updates[k].values] = CreatedIdsFrom(1)
    /\ (FailedDocCalls = {} /\ RowsProcessed = DataRows(sheet_data)) =>
         /\ Cardinality(CallsOf({"post"})) = Cardinality({r \in DataRows(sheet_data) : IdCell(r) = ""})
         /\ Cardinality(CallsOf({"patch"})) = Cardinality({r \in DataRows(sheet_data) : IdCell(r) # ""})
         /\ sync_stats.errors = 0

C4_Witness ==
  /\ dir = "s2n" /\ pc = "done" /\ FailedDocCalls = {}
  /\ OkCalls("patch") # {} /\ OkCalls("post") # {}

\* The sheet row a queued write-back addresses.
WriteBackRow(u) == a1_to_rowcol(u.range).row

\* C5: continue-on-error in sync_sheets_to_notion: a row whose remote call
\* fails adds exactly one to errors, nothing to created/updated and queues no
\* write-back; the failure never ends the call, the later rows are still
\* processed in order, and after the row loop created + updated + errors is
\* the number of data rows.
C5_ContinueOnError ==
  dir = "s2n" =>
    /\ sync_stats.errors = Cardinality(FailedDocCalls)
    /\ sync_stats.created + sync_stats.updated = Cardinality(DocCalls \ FailedDocCalls)
    /\ \A c \in FailedDocCalls :
         \A k \in 1..Len(batch_updates) : WriteBackRow(batch_updates[k]) # calls[c].row
    /\ \A c, d \in DocCalls : c < d => calls[c].row < calls[d].row
    /\ pc = "raised" => calls[Len(calls)].op \notin {"patch", "post"}
    /\ pc = "s2n_row" =>
         sync_stats.created + sync_stats.updated + sync_stats.errors = i - 2
    /\ pc \in {"flush", "done"} =>
         sync_stats.created + sync_stats.updated + sync_stats.errors = Len(sheet_data) - 1

\* A row failed and a later row was still processed.
C5_Witness ==
  /\ dir = "s2n" /\ pc = "done"
  /\ \E c \in FailedDocCalls : \E d \in DocCalls : d > c /\ calls[d].ok

\* The header row read by sync_sheets_to_notion does not hold the id column.
MissingIdCase == dir = "s2n" /\ sheet_data # <<>> /\ IdCol(sheet_data[1]) = 0

\* C6: when the header row does not contain the id column,
\* sync_sheets_to_notion fails fast with an exception that names the missing
\* column ("<id column> ... not found"), and no document-store call and no
\* sheet write is issued.
C6_MissingIdColumn ==
  MissingIdCase =>
    /\ pc = "raised"
    /\ NOTION_ID_COLUMN \in Range(exc.msg)
    /\ "not found" \in Range(exc.msg)
    /\ DocCalls = {} /\ SheetWrites = {}

\* What both engines do in that case: an exception naming the column, no call.
C6_FailsFast ==
  MissingIdCase =>
    /\ pc = "raised"
    /\ NOTION_ID_COLUMN \in Range(exc.msg)
    /\ DocCalls = {} /\ SheetWrites = {} /\ sheet = sheet0

\* C7: on an empty sheet each directional sync aborts with an exception before
\* any write: no sheet write and no document-store call is issued.
C7_EmptySheetAborts ==
  (dir # "none" /\ sheet0 = <<>>) =>
    /\ pc # "done"
    /\ DocCalls = {} /\ SheetWrites = {}

\* The same statement without sync_notion_to_sheets of src/main.py.
C7_EmptySheetAborts_others ==
  ~(impl = "main" /\ dir = "n2s") => C7_EmptySheetAborts

\* C8: in sync_notion_to_sheets a header row that differs from the expected
\* header makes the call abort with an exception, the sheet left as it was: the
\* header is not rewritten and no row is updated, appended or cleared.
C8_HeaderMismatchAborts ==
  (dir = "n2s" /\ sheet0 # <<>> /\ sheet0[1] # ExpectedHeaders) =>
    /\ pc # "done"
    /\ sheet = sheet0
    /\ SheetWrites = {}

\* The same statement for the engine of src/sync.py alone.
C8_HeaderMismatchAborts_sync == impl = "sync" => C8_HeaderMismatchAborts

FetchRaised == pc = "raised" /\ calls # <<>> /\ calls[Len(calls)].op = "query"

\* _fetch_all_notion_pages has returned its list.
FetchReturned == dir = "n2s" /\ pc # "fetch" /\ ~FetchRaised

RECURSIVE ConcatResults(_)
ConcatResults(rs) == IF rs = <<>> THEN <<>> ELSE Head(rs).results \o ConcatResults(Tail(rs))

\* C10: _fetch_all_notion_pages returns the concatenation, in response order,
\* of the results of responses 1..k, response k being the first with
\* has_more = false; it issues exactly k query calls: none after a response
\* with has_more = false, and it does not stop while has_more = true.
C10_FetchAll ==
  dir = "n2s" =>
    /\ Cardinality(OkCalls("query")) = Len(responses)
    /\ \A j \in 1..(Len(responses) - 1) : responses[j].has_more
    /\ pc = "fetch" => \A j \in 1..Len(responses) : responses[j].has_more
    /\ FetchReturned =>
         /\ responses # <<>>
         /\ ~responses[Len(responses)].has_more
         /\ results = ConcatResults(responses)
         /\ Cardinality(CallsOf({"query"})) = Len(responses)

C10_Witness == FetchReturned /\ Len(responses) >= 2 /\ Len(results) >= 2

IsQuery(c) == c.op = "query"

\* The query calls of this run, in order.
QueryCalls == SelectSeq(calls, IsQuery)

\* C11: cursor protocol of _fetch_all_notion_pages: the first query call
\* carries no start_cursor, and every later query call carries as start_cursor
\* exactly the next_cursor of the immediately preceding response (never the
\* cursor of an earlier response, never none).
C11_CursorProtocol ==
  dir = "n2s" =>
    \A j \in 1..Len(QueryCalls) :
      IF j = 1 THEN QueryCalls[j].payload = <<>>
      ELSE /\ QueryCalls[j].payload = <<responses[j - 1].next_cursor>>
           /\ responses[j - 1].next_cursor # 0
           /\ \A e \in 1..(j - 2) : responses[e].next_cursor # responses[j - 1].next_cursor

\* A fetch of three query calls: the third one's cursor is the second response's.
C11_Witness ==
  /\ dir = "n2s" /\ Len(QueryCalls) >= 3
  /\ QueryCalls[3].payload # QueryCalls[2].payload

\* A query call of this run failed.
QueryFailed == dir = "n2s" /\ \E c \in CallsOf({"query"}) : ~calls[c].ok

\* C12: when any query call of the paginated fetch fails, on the first page or
\* on a later one, sync_notion_to_sheets ends with an exception, the records
\* already fetched are dropped (no row is built from them, nothing is counted)
\* and no sheet call of any kind follows: the sheet is unchanged.
C12_FetchFailureAborts ==
  QueryFailed =>
    /\ pc = "raised" /\ exc # NoExc
    /\ calls[Len(calls)].op = "query"
    /\ SheetWrites = {} /\ CallsOf({"get_all_values"}) = {}
    /\ sheet = sheet0
    /\ sync_stats = ZeroStats
    /\ batch_data = <<>> /\ update_batch = <<>> /\ append_batch = <<>>

\* The failure happens on a later page, records having been fetched already.
C12_Witness == QueryFailed /\ responses # <<>> /\ results # <<>> /\ sheet # <<>>

\* ---- the rate limiter

\* The rate-limited calls of this run: the paginated fetch calls and the
\* per-item write calls (create / update of a page, update of one sheet row,
\* write-back of one id).  The bulk rewrite at A1 of src/main.py is no
\* per-item write.
PerItemCalls ==
  {c \in 1..Len(calls) :
     \/ calls[c].op \in {"query", "patch", "post"}
     \/ calls[c].op = "update" /\ ~(impl = "main" /\ dir = "n2s")}

Waits == CallsOf({"sleep"})

\* C13: with a non-zero delay a wait occurs before every paginated fetch call
\* and every per-item write call, so that between two consecutive such calls
\* of one run there is a wait, also when the earlier call failed; with a zero
\* delay no wait occurs at all.
C13_WaitBetweenCalls ==
  /\ RATE_LIMIT_DELAY = 0 => Waits = {}
  /\ RATE_LIMIT_DELAY > 0 =>
       \A c, d \in PerItemCalls : c < d => \E w \in Waits : c < w /\ w < d

\* What the code does: the wait follows a successful call (a query whose
\* response has more, a create or update of a page; in src/main.py also a
\* write-back), and a zero delay disables every wait.
C13_WaitAfterSuccess ==
  /\ RATE_LIMIT_DELAY = 0 => Waits = {}
  /\ RATE_LIMIT_DELAY > 0 =>
       \A c \in 1..Len(calls) :
         /\ (calls[c].op \in {"patch", "post"} /\ calls[c].ok) =>
              c < Len(calls) /\ calls[c + 1].op = "sleep"
         /\ (calls[c].op = "query" /\ c < Len(calls) /\ calls[c].ok
               /\ \E d \in CallsOf({"query"}) : d > c) =>
              calls[c + 1].op = "sleep"
         /\ (calls[c].op = "update" /\ calls[c].ok /\ impl = "main" /\ dir = "s2n") =>
              c < Len(calls) /\ calls[c + 1].op = "sleep"

\* ---- how a call ends

LastCall == calls[Len(calls)]

\* The call has started to reconcile items (a record was fetched and the fetch
\* returned; a data row was read and the header checks passed).
Reconciling ==
  \/ /\ dir = "n2s" /\ results # <<>>
     /\ \/ pc \in {"classify", "write_updates", "append", "clear", "update", "done"}
        \/ pc = "raised" /\ LastCall.op \in {"clear", "update", "append_rows"}
  \/ /\ dir = "s2n"
     /\ \/ pc \in {"s2n_row", "flush", "done"} /\ Len(sheet_data) > 1
        \/ pc = "raised" /\ LastCall.op = "update"

FailedSheetWrites == {c \in SheetWrites : ~calls[c].ok}

\* C14 as stated: once a directional sync has started reconciling items it
\* never ends with an exception; a later failure, the failure of a sheet write
\* of the write phase included, is counted in errors and the call goes on.
C14_NoExceptionOnceReconciling ==
  Reconciling =>
    /\ pc # "raised"
    /\ sync_stats.errors >= Cardinality(FailedSheetWrites)

\* C14 amended: an exception leaves a directional sync only from a remote call
\* outside the per-item loops: a structural failure before the first item
\* (fetch or sheet read failure, empty sheet, missing id column, header
\* mismatch) or a failing sheet write of the write phase.  A failure inside an
\* item loop (a record's formatting, a row's create / update call) is counted
\* in errors and never ends the call; a failing write of the write phase of
\* sync_notion_to_sheets ends the call with an exception, is not counted in
\* errors and the remaining writes are not issued.
C14_RaisesOnlyOutsideItemLoops ==
  /\ pc = "raised" =>
       /\ exc # NoExc /\ calls # <<>>
       /\ \/ LastCall.op \in {"query", "get_all_values"}
          \/ LastCall.op \in {"clear", "update", "append_rows"} /\ ~LastCall.ok
  /\ (dir = "n2s" /\ pc \in {"write_updates", "append", "clear", "update", "done"}) =>
       sync_stats.errors = Cardinality(FailedRecords)
  /\ (dir = "n2s" /\ Reconciling /\ pc = "raised") =>
       /\ sync_stats.errors = Cardinality(FailedRecords)
       /\ FailedSheetWrites = {Len(calls)}
  /\ dir = "s2n" => sync_stats.errors = Cardinality(FailedDocCalls)

\* A record failed in the item loop without ending the call, then a write of
\* the write phase failed and ended it.
C14_Witness ==
  /\ dir = "n2s" /\ Reconciling /\ pc = "raised"
  /\ FailedRecords # {} /\ GoodRecords # {}
  /\ sync_stats.errors = 1

\* ---- the write phase of sync_notion_to_sheets (src/sync.py)

\* The rows of the records k..N that are good and, for m = TRUE, matched by id
\* (for m = FALSE, new), in fetch order.
RECURSIVE RowsFrom(_, _)
RowsFrom(k, m) ==
  IF k > Len(results) THEN <<>>
  ELSE IF k \in GoodRecords /\ Matched(k) = m THEN <<RowOf(k)>> \o RowsFrom(k + 1, m)
  ELSE RowsFrom(k + 1, m)

IsUpdate(c) == c.op = "update"
IsAppend(c) == c.op = "append_rows"

WriteBackCalls == SelectSeq(calls, IsUpdate)

\* C16: in sync_sheets_to_notion the queued id write-backs are flushed only
\* after the last data row has been processed: no sheet write lies between the
\* first and the last document-store call of the run, and the write-backs are
\* then issued in row order (the order in which they were queued).
C16_FlushAfterRows ==
  dir = "s2n" =>
    /\ \A w \in SheetWrites : \A c \in DocCalls : c < w
    /\ SheetWrites # {} =>
         /\ pc \notin {"s2n_read", "s2n_row"}
         /\ {calls[c].row : c \in DocCalls} = DataRows(sheet_data)
    /\ pc = "s2n_row" => sheet = sheet0
    /\ \A w \in SheetWrites : calls[w].op = "update"
    /\ Len(WriteBackCalls) <= Len(batch_updates)
    /\ \A k \in 1..Len(WriteBackCalls) :
         /\ WriteBackCalls[k].range = batch_updates[k].range
         /\ WriteBackCalls[k].values = batch_updates[k].values
    /\ \A j, k \in 1..Len(WriteBackCalls) :
         j < k => WriteBackRow(WriteBackCalls[j]) < WriteBackRow(WriteBackCalls[k])

\* Two rows were created and both write-backs were issued after the last row.
C16_Witness ==
  /\ dir = "s2n" /\ pc = "done"
  /\ Cardinality(OkCalls("post")) = 2
  /\ Len(WriteBackCalls) = 2

\* A write-back of this run failed.
WriteBackFailed == dir = "s2n" /\ FailedSheetWrites # {}

\* C17: the write-back is best-effort: when writing a new id back into the
\* sheet fails, sync_sheets_to_notion still returns normally (no exception
\* reaches the caller) and the counters are unchanged by the failure: created
\* counts the page whose create call succeeded, errors is not incremented.
C17_WriteBackBestEffort ==
  WriteBackFailed =>
    /\ pc = "done" /\ exc = NoExc
    /\ sync_stats.created = Cardinality(OkCalls("post"))
    /\ sync_stats.created > 0
    /\ sync_stats.errors = Cardinality(FailedDocCalls)

\* The same statement for the engine of src/main.py alone.
C17_WriteBackBestEffort_main == impl = "main" => C17_WriteBackBestEffort

\* ---- the counters

\* The call ended on a structural failure, before any item was processed.
StructuralAbort == pc = "raised" /\ LastCall.op \in {"query", "get_all_values"}

\* C18: the counters {created, updated, errors} are reset to zero at the start
\* of every directional sync call: after any sequence of calls on one engine,
\* sync_stats reflects only the items processed by the most recent call (all
\* zero if that call aborted on a structural failure), never a sum over
\* earlier calls.
C18_CountersReset ==
  /\ pc \in {"idle", "fetch", "read", "s2n_read"} => sync_stats = ZeroStats
  /\ StructuralAbort => sync_stats = ZeroStats
  /\ dir = "s2n" =>
       /\ sync_stats.updated = Cardinality(OkCalls("patch"))
       /\ sync_stats.created = Cardinality(OkCalls("post"))
       /\ sync_stats.errors = Cardinality(FailedDocCalls)
  /\ dir = "n2s" =>
       /\ sync_stats.errors <= Cardinality(FailedRecords)
       /\ sync_stats.updated <= Len(results)
       /\ sync_stats.created <= Len(results)
  /\ (dir = "n2s" /\ impl = "sync") =>
       /\ sync_stats.updated = Len(update_batch)
       /\ sync_stats.created = Len(append_batch)

\* The second call on an engine whose first call left non-zero counters.
AfterNonZeroCall ==
  /\ runs = 2
  /\ prev.sync_stats.errors > 0
  /\ prev.sync_stats.created + prev.sync_stats.updated > 0

\* The second call processed items of its own and shows only their counts.
C18_Witness ==
  /\ AfterNonZeroCall /\ pc = "done"
  /\ sync_stats.errors = 0 /\ sync_stats.updated = 1 /\ sync_stats.created = 0

\* ---- the bulk rewrite asserted by test_sync_notion_to_sheets

\* The rows of the good records k..N, in fetch order.
RECURSIVE GoodRowsFrom(_)
GoodRowsFrom(k) ==
  IF k > Len(results) THEN <<>>
  ELSE IF k \in GoodRecords THEN <<RowOf(k)>> \o GoodRowsFrom(k + 1)
  ELSE GoodRowsFrom(k + 1)

\* C19: as the test of sync_notion_to_sheets asserts, a run over N fetched
\* pages clears the sheet exactly once, then issues exactly one sheet update
\* whose range is "A1" and whose values are the header row followed by one row
\* per successfully formatted page, and ends with sync_stats["updated"] = N.
\* (Stated for N >= 1, the case of the test.)
C19_ClearThenRewrite ==
  (dir = "n2s" /\ pc = "done" /\ results # <<>>) =>
    /\ Cardinality(CallsOf({"clear"})) = 1
    /\ Cardinality(CallsOf({"update"})) = 1
    /\ \A c \in CallsOf({"clear"}) : \A u \in CallsOf({"update"}) :
         /\ c < u
         /\ calls[u].range = "A1"
         /\ calls[u].values = <<ExpectedHeaders>> \o GoodRowsFrom(1)
    /\ CallsOf({"append_rows"}) = {}
    /\ sync_stats.updated = Len(results)

\* The same statement for the engine of src/main.py alone.
C19_ClearThenRewrite_main == impl = "main" => C19_ClearThenRewrite

\* ---- _extract_value_from_prop

\* _extract_value_from_prop has returned for a checkbox property holding a value.
CheckboxExtracted == returned # <<>> /\ prop.type = "checkbox" /\ "val" \in DOMAIN prop

\* C20: for a checkbox property _extract_value_from_prop returns exactly "TRUE"
\* when the value is true and exactly "FALSE" when the value is false; it never
\* returns the empty string or any other text for a checkbox.
C20_CheckboxText ==
  CheckboxExtracted => returned[1] = (IF prop.val THEN "TRUE" ELSE "FALSE")

\* What the code does: "TRUE" for true, the empty string for false.
C20_CheckboxTrueOnly ==
  CheckboxExtracted => returned[1] = (IF prop.val THEN "TRUE" ELSE "")

\* _extract_value_from_prop has returned for a date property.
DateExtracted == returned # <<>> /\ prop.type = "date"

\* C21: for a date property _extract_value_from_prop returns the start value
\* alone when no end is present, "<start> to <end>" when an end value is also
\* present, and "" when the date is absent.
C21_DateText ==
  DateExtracted =>
    returned[1] =
      IF "val" \notin DOMAIN prop THEN ""
      ELSE IF prop.val.end = "" THEN prop.val.start
      ELSE prop.val.start \o " to " \o prop.val.end

\* The same statement for the engine of src/main.py alone.
C21_DateText_main == impl = "main" => C21_DateText

\* ---- _build_notion_properties_from_row

\* The schema entry and the cell of the typed column of the row given to the builder.
TypedColumn == SchemaGet(schema, "P")[1]
TypedCell == row_arg[2]

\* The builder has returned for a row whose typed column has type typ.
Built(typ) == built # <<>> /\ TypedColumn.type = typ

\* The texts accepted as a ticked checkbox.
TickedTexts == {"TRUE", "YES", "1", CHECK_MARK}

\* C22: for a checkbox-typed column _build_notion_properties_from_row produces
\* checkbox = true iff the cell, compared case-insensitively, is one of TRUE,
\* YES, 1 or the check mark; for every other cell value, the empty cell
\* included, it produces checkbox = false: the property is in the payload.
C22_CheckboxBuilt ==
  Built("checkbox") =>
    /\ "P" \in DOMAIN built[1]
    /\ built[1]["P"].content = (Upper(Strip(TypedCell)) \in TickedTexts)

\* What the code does: a blank cell yields no property at all; a non-blank
\* cell yields checkbox = true iff it is one of the accepted texts.
C22_CheckboxNonBlank ==
  Built("checkbox") =>
    IF Strip(TypedCell) = "" THEN "P" \notin DOMAIN built[1]
    ELSE /\ "P" \in DOMAIN built[1]
         /\ built[1]["P"].content = (Upper(Strip(TypedCell)) \in TickedTexts)

\* The typed column is in the payload returned by the builder.
TypedPresent == "P" \in DOMAIN built[1]

\* The title column of the row is in the payload iff its cell is not blank.
TitleKept == ("Title" \in DOMAIN built[1]) <=> (Strip(row_arg[1]) # "")

\* s without one leading currency symbol.
DropLeadingCurrency(s) == IF StartsWith(s, "$") THEN SubSeq(s, 2, Len(s)) ELSE s

\* The number rule as claimed: a decimal once the thousands separators and
\* a leading currency symbol are removed.
NumberRuleLeading(cell) == ParseFloat(DropLeadingCurrency(Remove(Strip(cell), ","))).ok

\* The number rule of src/main.py: a decimal once every comma and every
\* dollar sign, wherever it stands, is removed.
NumberRuleAnywhere(cell) == ParseFloat(Remove(Remove(Strip(cell), ","), "$")).ok

UrlRule(cell) == StartsWith(Strip(cell), "http://") \/ StartsWith(Strip(cell), "https://")

EmailRule(cell) == Contains(Strip(cell), "@")

EnumeratedOptions == Range(SchemaOptions(TypedColumn))

\* C24: for a select column whose schema enumerates option names the select
\* property is in the payload only when the cell is one of the enumerated
\* names (no name outside the enumeration is ever sent); when the schema
\* enumerates no option, every non-empty cell is accepted.
C24_SelectValidated ==
  Built("select") =>
    /\ TypedPresent <=>
         /\ Strip(TypedCell) # ""
         /\ EnumeratedOptions = {} \/ Strip(TypedCell) \in EnumeratedOptions
    /\ TypedPresent => built[1]["P"].content = Strip(TypedCell)

\* The same for src/main.py alone.
C24_SelectValidated_main == impl = "main" => C24_SelectValidated

\* ---- the round trip extract, build, extract

\* Two cell texts have the same display form: the same text, or two
\* numerals of the same number ("5" and "5.0").
SameDisplay(a, b) ==
  \/ a = b
  \/ /\ ParseFloat(a).ok /\ ParseFloat(b).ok
     /\ ParseFloat(a).val = ParseFloat(b).val

\* The round trip of the value held by prop: the cell produced by extract is
\* not skipped by build, and the text extracted again has the same display form.
RoundTrips ==
  /\ built # <<>> => TypedPresent
  /\ Len(returned) = 2 => SameDisplay(returned[1], returned[2])

\* C25: for every value v of a type that round-trips (select, checkbox,
\* number), build does not skip the cell produced by extract(v), checkbox
\* false and the number 0 included, and extract(build(extract(v))) is
\* extract(v).
C25_RoundTrip == RoundTrips

\* What holds: the values other than checkbox false and the number 0 make
\* the round trip.
C25_RoundTrip_Truthy == ~Falsy(prop) => RoundTrips

\* A value that does make the round trip to the end.
C25_Truthy_Witness ==
  /\ prop.type = "checkbox" /\ prop.val
  /\ Len(returned) = 2 /\ returned[2] = "TRUE"

\* ---- the locking of the window

\* The task threads inside their directional sync.
SyncingTasks == { t \in 1..Len(threads) : threads[t].at = "try" }

\* C26: the locking of the window prevents overlapping runs: at most one
\* directional sync task is running at any time, under every interleaving of
\* clicks and task steps, and the buttons are enabled again only when no
\* directional sync is running.
C26_NoOverlappingRuns ==
  /\ Cardinality(SyncingTasks) <= 1
  /\ (~n2s_button \/ ~s2n_button) => SyncingTasks = {}

\* ---- the address of a write-back

\* The cell the sheet resolves the queued write-back to.
QueuedCell == a1_to_rowcol(batch_updates[1].range)

\* C27: the write-back queued for a created row addresses the single cell at
\* the row's own sheet row (header = row 1) and the id column, wherever the
\* id column stands in the header, beyond the 26th column included.
C27_WriteBackAddress ==
  batch_updates # <<>> =>
    /\ Len(batch_updates) = 1
    /\ QueuedCell.ok
    /\ QueuedCell.row = i
    /\ QueuedCell.col = id_column_index + 1
    /\ batch_updates[1].values = << <<NewIdName[nextId]>> >>

\* The same for src/sync.py, and for src/main.py while the id column is one
\* of the first 26 columns.
C27_WriteBackAddress_OneLetter ==
  (impl = "sync" \/ id_column_index < 26) => C27_WriteBackAddress

\* ---- what sync_notion_to_sheets leaves alone

\* The id cell of data row r of the sheet the call started from ("" when the
\* sheet has no id column or the row does not reach it).
IdCell0(r) ==
  IF NOTION_ID_COLUMN \in Range(sheet0[1]) /\ Len(sheet0[r]) >= IdCol(sheet0[1])
    THEN sheet0[r][IdCol(sheet0[1])] ELSE ""

\* The data rows the call was not asked to write: no id, or the id of no
\* fetched record.
ForeignRows ==
  { r \in DataRows(sheet0) :
      IdCell0(r) = "" \/ ~\E k \in 1..Len(results) : results[k].id = IdCell0(r) }

\* C28: sync_notion_to_sheets never removes or blanks content it was not
\* asked to write: every data row present before the run whose id cell is
\* empty or matches no fetched record is still there, unchanged and at the
\* same position after the run, also when a write of the run failed part-way.
C28_ForeignRowsKept ==
  (dir = "n2s" /\ Finished) =>
    \A r \in ForeignRows : r <= Len(sheet) /\ sheet[r] = sheet0[r]

\* The same for the engine of src/sync.py alone.
C28_ForeignRowsKept_sync == impl = "sync" => C28_ForeignRowsKept

\* ---- two runs of sync_sheets_to_notion in a row

\* The current call is a sync_sheets_to_notion that follows a completed
\* sync_sheets_to_notion whose write-backs were all applied.
SecondS2NAfterFlush ==
  /\ dir = "s2n"
  /\ prev.dir = "s2n" /\ prev.pc = "done" /\ prev.flushed

FlushEnded == dir = "s2n" /\ pc \in {"done", "raised"} /\ batch_updates # <<>>

\* C30: in the flush of sync_sheets_to_notion every queued id write-back is
\* attempted: a write-back that fails does not prevent the attempts for the
\* write-backs queued after it.
C30_EveryWriteBackAttempted ==
  FlushEnded => Len(WriteBackCalls) = Len(batch_updates)

\* What holds: the write-backs are attempted in queue order up to the first
\* one that fails, and none after it.
C30_AttemptedUpToFirstFailure ==
  FlushEnded =>
    /\ \A k \in 1..Len(WriteBackCalls) :
         ~WriteBackCalls[k].ok => k = Len(WriteBackCalls)
    /\ Len(WriteBackCalls) < Len(batch_updates) =>
         ~WriteBackCalls[Len(WriteBackCalls)].ok

====
